---- MODULE Spec2Model ----
(***************************************************************************)
(* Realtime shooting advisor: hysteresis controller, motion state machine, *)
(* advice engine, websocket fan-out and persistent session manager.        *)
(*                                                                         *)
(* Units.  Indicator values in [0,1] (motion_smoothness, occupancy) are    *)
(* integers in thousandths; speeds are px/frame; confidences are percent;  *)
(* times are whole seconds.                                                *)
(***************************************************************************)
EXTENDS Integers, Sequences, FiniteSets, TLC

(***************************************************************************)
(* Bounds of the model                                                     *)
(***************************************************************************)
\* how many checks a hysteresis run is followed for
MaxHystCycles == 10

\* how many frame buffers the clients of the session submit in all
MaxCycles == 2
\* how many payloads one analysis cycle emits at most
MaxAdvicePerCycle == 2

\* how many times generate_advice is called on one engine
MaxEngineCycles == 3
\* the engine's clock stops here (seconds)
MaxEngineTime == 11
\* how many times generate_advice is called on one engine with a smoothing filter
MaxSmoothingCycles == 6
\* how many analysis cycles in a row find no subject
MaxMissedCycles == 4
\* how long a task manager is watched, seconds
MaxTaskTime == 8

\* the clock of the session manager stops here (seconds), except that it
\* still runs up to the sweep a stale client is waiting for
MaxTime == 360
\* reconnection attempts a client makes beyond max_reconnect_attempts
MaxExtraAttempts == 2

\* the clock of the websocket session manager stops here (seconds), except
\* that it still runs up to the wake-up of a handler sleeping in its clean-up
MaxReapTime == 120

\* on how many of its first attempts a pipeline stage raises RetryableError
MaxFailures == 4

\* marker of an absent dictionary entry / an Optional that is None
None == "none"

(***************************************************************************)
(* HysteresisController (hysteresis.py)                                    *)
(***************************************************************************)
\* AdviceEngineConfig thresholds, thousandths
stability_critical_threshold == 400
stability_warning_threshold == 700
\* px/frame
speed_warning_threshold == 20

\* The engine passes threshold -/+ 0.05 computed in floating point:
\* 0.4-0.05 = 0.35000000000000003 and 0.7-0.05 = 0.6499999999999999, while
\* 0.4+0.05 = 0.45 and 0.7+0.05 = 0.75 are exact.  On the thousandths grid the
\* two inexact thresholds sit one unit above 350 and one unit below 650; the
\* indicator grids below never use 350..351 or 649..650 except the exact
\* hundredths 350 and 650, for which the comparisons come out as in the code.
StabilityCriticalEnter == stability_critical_threshold - 50 + 1
StabilityCriticalExit == stability_critical_threshold + 50
StabilityWarningEnter == stability_warning_threshold - 50 - 1
StabilityWarningExit == stability_warning_threshold + 50
SpeedFastEnter == speed_warning_threshold + 2
SpeedFastExit == speed_warning_threshold - 2

Levels == {"normal", "warning", "critical"}

\* check_threshold: the new level of a two-level category
CheckThreshold(current_state, value, enter_threshold, exit_threshold, lower_is_worse) ==
    IF lower_is_worse
    THEN IF current_state = "normal"
         THEN IF value < enter_threshold THEN "warning" ELSE "normal"
         ELSE IF value > exit_threshold THEN "normal" ELSE "warning"
    ELSE IF current_state = "normal"
         THEN IF value > enter_threshold THEN "warning" ELSE "normal"
         ELSE IF value < exit_threshold THEN "normal" ELSE "warning"

\* check_threshold_multi_level: the new level of a three-level category
CheckThresholdMultiLevelSwapped(current_state, value, critical_enter, critical_exit, warning_enter, warning_exit, lower_is_worse) ==
    IF lower_is_worse
    THEN CASE current_state = "critical" ->
                IF value > critical_enter
                THEN IF value < warning_exit THEN "warning" ELSE "normal"
                ELSE "critical"
           [] current_state = "warning" ->
                IF value < critical_exit THEN "critical"
                ELSE IF value > warning_exit THEN "normal"
                ELSE "warning"
           [] OTHER ->
                IF value < critical_exit THEN "critical"
                ELSE IF value < warning_enter THEN "warning"
                ELSE "normal"
    ELSE CASE current_state = "critical" ->
                IF value < critical_enter
                THEN IF value > warning_exit THEN "warning" ELSE "normal"
                ELSE "critical"
           [] current_state = "warning" ->
                IF value > critical_exit THEN "critical"
                ELSE IF value < warning_exit THEN "normal"
                ELSE "warning"
           [] OTHER ->
                IF value > critical_exit THEN "critical"
                ELSE IF value > warning_enter THEN "warning"
                ELSE "normal"

CheckThresholdMultiLevel(current_state, value, critical_enter, critical_exit, warning_enter, warning_exit, lower_is_worse) ==
    IF lower_is_worse
    THEN CASE current_state = "critical" ->
                IF value > critical_exit
                THEN IF value < warning_exit THEN "warning" ELSE "normal"
                ELSE "critical"
           [] current_state = "warning" ->
                IF value < critical_enter THEN "critical"
                ELSE IF value > warning_exit THEN "normal"
                ELSE "warning"
           [] OTHER ->
                IF value < critical_enter THEN "critical"
                ELSE IF value < warning_enter THEN "warning"
                ELSE "normal"
    ELSE CASE current_state = "critical" ->
                IF value < critical_exit
                THEN IF value > warning_exit THEN "warning" ELSE "normal"
                ELSE "critical"
           [] current_state = "warning" ->
                IF value > critical_enter THEN "critical"
                ELSE IF value < warning_exit THEN "normal"
                ELSE "warning"
           [] OTHER ->
                IF value > critical_enter THEN "critical"
                ELSE IF value > warning_enter THEN "warning"
                ELSE "normal"

\* The cooldown and consistency keys the advice engine passes as "category"
HystKeys == {"stability", "stability_positive",
             "speed", "speed_fast", "speed_uneven", "speed_positive",
             "composition_lost", "composition_direction", "composition_position",
             "composition_occupancy", "composition_occupancy_large",
             "composition_occupancy_small",
             "beat", "equipment", "equipment_telephoto", "equipment_stabilization",
             "lower2", "higher3"}

\* The threshold sets a category is checked with.  "stability" and
\* "speed_fast" are the two calls of the advice engine; "lower2" is the
\* two-level lower-is-worse example of check_threshold's docstring and
\* "higher3" drives the higher-is-worse branch of the three-level form.
HystConfig(category) ==
    CASE category = "stability" ->
           [levels |-> 3, lower_is_worse |-> TRUE,
            critical_enter |-> StabilityCriticalEnter, critical_exit |-> StabilityCriticalExit,
            warning_enter |-> StabilityWarningEnter, warning_exit |-> StabilityWarningExit]
      [] category = "speed_fast" ->
           [levels |-> 2, lower_is_worse |-> FALSE,
            critical_enter |-> 0, critical_exit |-> 0,
            warning_enter |-> SpeedFastEnter, warning_exit |-> SpeedFastExit]
      [] category = "lower2" ->
           [levels |-> 2, lower_is_worse |-> TRUE,
            critical_enter |-> 0, critical_exit |-> 0,
            warning_enter |-> 400, warning_exit |-> 500]
      [] OTHER ->
           [levels |-> 3, lower_is_worse |-> FALSE,
            critical_enter |-> 650, critical_exit |-> 550,
            warning_enter |-> 350, warning_exit |-> 250]

HystTestKeys == {"stability", "speed_fast", "lower2", "higher3"}

\* values fed to a category: below, inside and above each enter/exit pair
HystValues(category) ==
    CASE category = "stability" -> {300, 350, 400, 420, 500, 650, 700, 720, 800}
      [] category = "speed_fast" -> {10, 18, 19, 21, 22, 25}
      [] category = "lower2" -> {300, 400, 420, 480, 500, 600}
      [] OTHER -> {200, 250, 280, 320, 450, 550, 580, 620, 650, 700}

VARIABLES
    current_states,        \* HysteresisController._current_states
    consistency_counters,  \* HysteresisController._consistency_counters
    pending_states,        \* HysteresisController._pending_states
    last_advice_time,      \* HysteresisController._last_advice_time
    hyst_key,              \* the category a run of direct checks is made on
    hyst_cycles,           \* number of checks made in that run
    hyst_run               \* observer: the current run of in-band values

hystVars == <<current_states, consistency_counters, pending_states, last_advice_time>>
hystRunVars == <<hyst_key, hyst_cycles, hyst_run>>

\* absent entries read as their .get() default
HysteresisInit ==
    /\ current_states = [k \in HystKeys |-> "normal"]
    /\ consistency_counters = [k \in HystKeys |-> 0]
    /\ pending_states = [k \in HystKeys |-> "normal"]
    /\ last_advice_time = [k \in HystKeys |-> -1]

\* one call of check_threshold / check_threshold_multi_level on a category
HystLevelAfter(category, value) ==
    LET c == HystConfig(category) IN
    IF c.levels = 3
    THEN CheckThresholdMultiLevel(current_states[category], value,
                                  c.critical_enter, c.critical_exit,
                                  c.warning_enter, c.warning_exit, c.lower_is_worse)
    ELSE CheckThreshold(current_states[category], value,
                        c.warning_enter, c.warning_exit, c.lower_is_worse)

Between(value, a, b) == (a < value /\ value < b) \/ (b < value /\ value < a)

\* the enter/exit pair the value lies strictly between, if any
HystBand(category, value) ==
    LET c == HystConfig(category) IN
    IF c.levels = 3 /\ Between(value, c.critical_enter, c.critical_exit) THEN "critical"
    ELSE IF Between(value, c.warning_enter, c.warning_exit) THEN "warning"
    ELSE None

NoRun == [band |-> None, level |-> "normal", len |-> 0]

HystCheck(value) ==
    /\ hyst_cycles < MaxHystCycles
    /\ LET new_state == HystLevelAfter(hyst_key, value)
           band == HystBand(hyst_key, value)
       IN /\ current_states' = [current_states EXCEPT ![hyst_key] = new_state]
          /\ hyst_run' = IF band = None THEN NoRun
                         ELSE IF band = hyst_run.band
                              THEN [hyst_run EXCEPT !.len = @ + 1]
                              ELSE [band |-> band, level |-> new_state, len |-> 1]
    /\ hyst_cycles' = hyst_cycles + 1
    /\ UNCHANGED <<consistency_counters, pending_states, last_advice_time, hyst_key>>

HystCheckStep == \E value \in HystValues(hyst_key) : HystCheck(value)

(***************************************************************************)
(* MotionTypeInferrer (motion_rules.py), MotionStateMachine                *)
(* (state_machine.py)                                                      *)
(***************************************************************************)
MotionTypes == {"static", "dolly_in", "dolly_out", "pan", "tilt", "track", "handheld"}

\* MotionRulesConfig: px/s, thousandths, degrees
static_threshold == 5
slow_motion_threshold == 50
dolly_threshold == 50
significant_change_threshold == 150
horizontal_tolerance == 30
vertical_tolerance == 30
handheld_smoothness_threshold == 500

\* MotionStateMachineConfig: percent, updates
min_confidence_threshold == 40
consistency_required == 2

\* primary_direction_deg is None
NoDirection == -1

Abs(x) == IF x < 0 THEN -x ELSE x

IsHorizontal(direction) ==
    \/ direction < horizontal_tolerance
    \/ direction > 360 - horizontal_tolerance
    \/ Abs(direction - 180) < horizontal_tolerance

IsVertical(direction) ==
    \/ Abs(direction - 90) < vertical_tolerance
    \/ Abs(direction - 270) < vertical_tolerance

\* infer_motion_type: first matching rule wins
InferMotionType(avg_motion, frame_pct_change, motion_smoothness, subject_occupancy, primary_direction_deg) ==
    IF avg_motion < static_threshold THEN "static"
    ELSE IF motion_smoothness < handheld_smoothness_threshold THEN "handheld"
    ELSE IF /\ frame_pct_change > dolly_threshold
            /\ frame_pct_change > significant_change_threshold
         THEN IF subject_occupancy > 300 THEN "dolly_in" ELSE "dolly_out"
    ELSE IF /\ primary_direction_deg # NoDirection
            /\ IsHorizontal(primary_direction_deg % 360)
         THEN "pan"
    ELSE IF /\ primary_direction_deg # NoDirection
            /\ IsVertical(primary_direction_deg % 360)
         THEN "tilt"
    ELSE IF /\ subject_occupancy > 100
            /\ avg_motion > slow_motion_threshold
            /\ motion_smoothness > 600
         THEN "track"
    ELSE IF avg_motion > slow_motion_threshold THEN "handheld"
    ELSE "static"

Clamp(lo, x, hi) == IF x < lo THEN lo ELSE IF x > hi THEN hi ELSE x

\* calculate_confidence, percent
CalculateConfidence(avg_motion, frame_pct_change, motion_smoothness, motion_type) ==
    LET static_boost == IF motion_type = "static" /\ avg_motion < static_threshold
                        THEN 30 ELSE 0
        smooth_boost == IF motion_smoothness > 700 THEN 15
                        ELSE IF motion_smoothness > 500 THEN 10 ELSE 0
        dolly_boost == IF /\ motion_type \in {"dolly_in", "dolly_out"}
                          /\ frame_pct_change > significant_change_threshold
                       THEN 20 ELSE 0
        penalty == IF motion_smoothness < 300 THEN 10 ELSE 0
    IN Clamp(0, 50 + static_boost + smooth_boost + dolly_boost - penalty, 100)

VARIABLES
    sm_current_state,   \* MotionStateMachine._current_state
    sm_pending_state,   \* MotionStateMachine._pending_state
    sm_pending_count,   \* MotionStateMachine._pending_count
    sm_inferred         \* observer: the types inferred by the latest updates

smVars == <<sm_current_state, sm_pending_state, sm_pending_count>>

MotionInit ==
    /\ sm_current_state = "static"
    /\ sm_pending_state = None
    /\ sm_pending_count = 0

\* _process_inference.  The confidence estimate (_state_confidence) and the
\* two history deques are written here and by update() but are read only by
\* getters; they are floating-point telemetry and are not part of the state.
ProcessInferenceKeepsPending(cur, pend, cnt, inferred_type, confidence) ==
    IF inferred_type = cur
    THEN [current |-> cur, pending |-> pend, count |-> cnt]
    ELSE IF confidence < min_confidence_threshold
    THEN [current |-> cur, pending |-> pend, count |-> cnt]
    ELSE LET p == inferred_type
             c == IF inferred_type = pend THEN cnt + 1 ELSE 1
         IN IF c >= consistency_required
            THEN [current |-> inferred_type, pending |-> None, count |-> 0]
            ELSE [current |-> cur, pending |-> p, count |-> c]

ProcessInference(cur, pend, cnt, inferred_type, confidence) ==
    IF inferred_type = cur
    THEN [current |-> cur, pending |-> None, count |-> 0]
    ELSE IF confidence < min_confidence_threshold
    THEN [current |-> cur, pending |-> pend, count |-> cnt]
    ELSE LET p == inferred_type
             c == IF inferred_type = pend THEN cnt + 1 ELSE 1
         IN IF c >= consistency_required
            THEN [current |-> inferred_type, pending |-> None, count |-> 0]
            ELSE [current |-> cur, pending |-> p, count |-> c]

LastN(seq, n) == IF Len(seq) <= n THEN seq ELSE SubSeq(seq, Len(seq) - n + 1, Len(seq))

\* MotionStateMachine.update
MotionUpdate(avg_motion, frame_pct_change, motion_smoothness, subject_occupancy, primary_direction_deg) ==
    LET inferred_type == InferMotionType(avg_motion, frame_pct_change, motion_smoothness,
                                         subject_occupancy, primary_direction_deg)
        confidence == CalculateConfidence(avg_motion, frame_pct_change, motion_smoothness,
                                          inferred_type)
        r == ProcessInference(sm_current_state, sm_pending_state, sm_pending_count,
                              inferred_type, confidence)
    IN /\ sm_current_state' = r.current
       /\ sm_pending_state' = r.pending
       /\ sm_pending_count' = r.count
       /\ sm_inferred' = LastN(Append(sm_inferred, inferred_type), consistency_required)

\* indicator values on each side of every rule of the inferrer
MotionAvgValues == {2, 30, 100}
MotionSmoothnessValues == {200, 550, 650, 900}
MotionPctChangeValues == {0, 100, 200}
MotionOccupancyValues == {50, 200, 500}
MotionDirectionValues == {NoDirection, 10, 45, 100}

MotionUpdateStep ==
    /\ \E am \in MotionAvgValues, fpc \in MotionPctChangeValues,
          ms \in MotionSmoothnessValues, occ \in MotionOccupancyValues,
          dir \in MotionDirectionValues :
            MotionUpdate(am, fpc, ms, occ, dir)

(***************************************************************************)
(* RealtimeWebSocketHandler and SessionManager (websocket_handler.py):     *)
(* one session, one handler task per client connection.  The tasks run on  *)
(* one event loop: a task keeps the loop from one await to the next.       *)
(***************************************************************************)
WsClients == {"A", "B"}

VARIABLES
    ws_clients,    \* SessionManager._clients[session_id]
    ws_state,      \* websocket.client_state of each client
    ws_pc,         \* where each client's handler task stands
    ws_advice,     \* advice_list of the task's current cycle (payload ids)
    ws_idx,        \* _broadcast_advice: index of the payload being sent
    ws_emitted,    \* payloads the advice engine has emitted so far
    ws_cycles,     \* frame buffers submitted so far
    ws_received,   \* advice payloads each client has received, in order
    ws_steady,     \* observer: clients attached, connected and free of send
                   \* failures since the task's broadcast began
    ws_failed,     \* observer: clients a send of the task's broadcast failed for
    ws_engine_tasks \* history: the handler tasks that have called
                   \* generate_advice of the session's advice engine

wsVars == <<ws_clients, ws_state, ws_pc, ws_advice, ws_idx, ws_emitted, ws_cycles,
            ws_received, ws_steady, ws_failed, ws_engine_tasks>>

WsInit ==
    /\ ws_clients = {}
    /\ ws_state = [c \in WsClients |-> "DISCONNECTED"]
    /\ ws_pc = [c \in WsClients |-> "closed"]
    /\ ws_advice = [c \in WsClients |-> <<>>]
    /\ ws_idx = [c \in WsClients |-> 0]
    /\ ws_emitted = 0
    /\ ws_cycles = 0
    /\ ws_received = [c \in WsClients |-> <<>>]
    /\ ws_steady = [c \in WsClients |-> {}]
    /\ ws_failed = [c \in WsClients |-> {}]
    /\ ws_engine_tasks = {}

\* _handle_frame_buffer between decode_frame_buffer and generate_advice has no
\* await: a task at one of these positions holds the event loop.
HoldsLoopAwaitingAnalysis(pc) == pc = "advise"

HoldsLoop(pc) == pc \in {"analyze", "advise"}

\* a task may take a step when no other task holds the event loop
MayRun(c) == \A d \in WsClients \ {c} : ~HoldsLoop(ws_pc[d])

\* handle_connection up to the message loop: accept, add_client, welcome
WsConnect(c) ==
    /\ ws_pc[c] = "closed"
    /\ MayRun(c)
    /\ ws_state' = [ws_state EXCEPT ![c] = "CONNECTED"]
    /\ ws_clients' = ws_clients \cup {c}
    /\ ws_pc' = [ws_pc EXCEPT ![c] = "recv"]
    /\ UNCHANGED <<ws_advice, ws_idx, ws_emitted, ws_engine_tasks, ws_cycles, ws_received, ws_steady,
                   ws_failed>>

\* the connection of a client drops
WsSocketClose(c) ==
    /\ ws_state[c] = "CONNECTED"
    /\ MayRun(c)
    /\ ws_state' = [ws_state EXCEPT ![c] = "DISCONNECTED"]
    /\ ws_steady' = [t \in WsClients |-> ws_steady[t] \ {c}]
    /\ UNCHANGED <<ws_clients, ws_pc, ws_advice, ws_idx, ws_emitted, ws_engine_tasks, ws_cycles,
                   ws_received, ws_failed>>

\* _message_loop: receive_text raises WebSocketDisconnect; handle_connection's
\* finally removes the client
WsHandlerExit(c) ==
    /\ ws_pc[c] = "recv"
    /\ ws_state[c] = "DISCONNECTED"
    /\ MayRun(c)
    /\ ws_clients' = ws_clients \ {c}
    /\ ws_pc' = [ws_pc EXCEPT ![c] = "closed"]
    /\ ws_steady' = [t \in WsClients |-> ws_steady[t] \ {c}]
    /\ UNCHANGED <<ws_state, ws_advice, ws_idx, ws_emitted, ws_engine_tasks, ws_cycles, ws_received,
                   ws_failed>>

\* _handle_frame_buffer: a "frames" message with enough frames is received and
\* decoded
WsReceiveFrames(c) ==
    /\ ws_pc[c] = "recv"
    /\ ws_state[c] = "CONNECTED"
    /\ MayRun(c)
    /\ ws_cycles < MaxCycles
    /\ ws_cycles' = ws_cycles + 1
    /\ ws_pc' = [ws_pc EXCEPT ![c] = "analyze"]
    /\ UNCHANGED <<ws_clients, ws_state, ws_advice, ws_idx, ws_emitted, ws_engine_tasks, ws_received,
                   ws_steady, ws_failed>>

\* _handle_frame_buffer: no frames, or fewer than min_frame_buffer_size: an
\* error or an "insufficient_frames" acknowledgement is sent and nothing else
WsReceiveUnusable(c) ==
    /\ ws_pc[c] = "recv"
    /\ ws_state[c] = "CONNECTED"
    /\ MayRun(c)
    /\ ws_cycles < MaxCycles
    /\ ws_cycles' = ws_cycles + 1
    /\ ws_pc' = [ws_pc EXCEPT ![c] = "reject"]
    /\ UNCHANGED <<ws_clients, ws_state, ws_advice, ws_idx, ws_emitted, ws_engine_tasks, ws_received,
                   ws_steady, ws_failed>>

WsRejectSent(c) ==
    /\ ws_pc[c] = "reject"
    /\ MayRun(c)
    /\ ws_pc' = [ws_pc EXCEPT ![c] = "recv"]
    /\ UNCHANGED <<ws_clients, ws_state, ws_advice, ws_idx, ws_emitted, ws_engine_tasks, ws_cycles,
                   ws_received, ws_steady, ws_failed>>

\* analyzer.analyze_buffer and session.update_latency
WsAnalyze(c) ==
    /\ ws_pc[c] = "analyze"
    /\ MayRun(c)
    /\ ws_pc' = [ws_pc EXCEPT ![c] = "advise"]
    /\ UNCHANGED <<ws_clients, ws_state, ws_advice, ws_idx, ws_emitted, ws_engine_tasks, ws_cycles,
                   ws_received, ws_steady, ws_failed>>

\* advice_engine.generate_advice: the task updates the motion state machine,
\* the hysteresis controller and the smoothing filter of the session's engine;
\* the cycle's payloads are emitted, numbered in emission order; the task then
\* awaits the send of the frame_ack
WsGenerateAdvice(c, n) ==
    /\ ws_pc[c] = "advise"
    /\ MayRun(c)
    /\ ws_advice' = [ws_advice EXCEPT ![c] = [i \in 1..n |-> ws_emitted + i]]
    /\ ws_emitted' = ws_emitted + n
    /\ ws_engine_tasks' = ws_engine_tasks \cup {c}
    /\ ws_pc' = [ws_pc EXCEPT ![c] = "ack"]
    /\ UNCHANGED <<ws_clients, ws_state, ws_idx, ws_cycles, ws_received, ws_steady,
                   ws_failed>>

\* the frame_ack send returns; _broadcast_advice starts when there is advice
WsAckSent(c) ==
    /\ ws_pc[c] = "ack"
    /\ MayRun(c)
    /\ IF ws_advice[c] # <<>>
       THEN /\ ws_pc' = [ws_pc EXCEPT ![c] = "bcast"]
            /\ ws_idx' = [ws_idx EXCEPT ![c] = 1]
            /\ ws_steady' = [ws_steady EXCEPT
                               ![c] = {x \in ws_clients : ws_state[x] = "CONNECTED"}]
            /\ ws_failed' = [ws_failed EXCEPT ![c] = {}]
       ELSE /\ ws_pc' = [ws_pc EXCEPT ![c] = "telemetry"]
            /\ UNCHANGED <<ws_idx, ws_steady, ws_failed>>
    /\ UNCHANGED <<ws_clients, ws_state, ws_advice, ws_emitted, ws_engine_tasks, ws_cycles, ws_received>>

\* asyncio.gather(..., return_exceptions=True) over _send_message, which logs
\* and swallows the exception of a failed send: the clients the payload reaches
GatherCancelledByFailure(targets, failed) == IF failed = {} THEN targets ELSE {}

GatherDelivers(targets, failed) == targets \ failed

\* _broadcast_advice: one payload is sent to every client of the session
\* whose socket is CONNECTED; the sends of the set `failed` raise
WsBroadcastOne(c, failed) ==
    /\ ws_pc[c] = "bcast"
    /\ MayRun(c)
    /\ LET targets == {x \in ws_clients : ws_state[x] = "CONNECTED"}
           payload == ws_advice[c][ws_idx[c]]
           reached == GatherDelivers(targets, failed)
       IN /\ failed \subseteq targets
          /\ ws_received' = [x \in WsClients |->
                               IF x \in reached THEN Append(ws_received[x], payload)
                               ELSE ws_received[x]]
          /\ ws_steady' = [ws_steady EXCEPT ![c] = @ \ failed]
          /\ ws_failed' = [ws_failed EXCEPT ![c] = @ \cup failed]
    /\ IF ws_idx[c] < Len(ws_advice[c])
       THEN /\ ws_idx' = [ws_idx EXCEPT ![c] = @ + 1]
            /\ UNCHANGED ws_pc
       ELSE /\ ws_pc' = [ws_pc EXCEPT ![c] = "telemetry"]
            /\ UNCHANGED ws_idx
    /\ UNCHANGED <<ws_clients, ws_state, ws_advice, ws_emitted, ws_engine_tasks, ws_cycles>>

\* _broadcast_telemetry returns; _handle_frame_buffer returns with its locals
\* and the task awaits the next message
WsTelemetrySent(c) ==
    /\ ws_pc[c] = "telemetry"
    /\ MayRun(c)
    /\ ws_pc' = [ws_pc EXCEPT ![c] = "recv"]
    /\ ws_advice' = [ws_advice EXCEPT ![c] = <<>>]
    /\ ws_idx' = [ws_idx EXCEPT ![c] = 0]
    /\ ws_steady' = [ws_steady EXCEPT ![c] = {}]
    /\ ws_failed' = [ws_failed EXCEPT ![c] = {}]
    /\ UNCHANGED <<ws_clients, ws_state, ws_emitted, ws_engine_tasks, ws_cycles, ws_received>>

(***************************************************************************)
(* Errors raised while a message of a client is handled (_message_loop,    *)
(* _handle_message)                                                        *)
(***************************************************************************)
VARIABLES
    ws_errors      \* "error" messages each client has received

\* what a handler raises while it handles a message: json.loads fails, or
\* decode_frame_buffer, analyze_buffer or generate_advice raises
MessageExceptions == {"JSONDecodeError", "Exception"}

\* the innermost try block whose except clause matches the exception
ErrorCaughtByConnection(exc) == "handle_connection"

ErrorCaughtBy(exc) ==
    IF exc = "JSONDecodeError" THEN "_handle_message"
    ELSE IF exc = "WebSocketDisconnect" THEN "handle_connection"
    ELSE "_message_loop"

\* an exception is raised while the handler of client c handles a message.
\* Caught by _handle_message or by _message_loop it becomes a PARSE_ERROR
\* message that the handler goes on to send; an exception that leaves the
\* loop ends the handler, whose finally removes the client.
WsHandlingError(c, exc) ==
    /\ MayRun(c)
    /\ \/ /\ exc = "JSONDecodeError"
          /\ ws_pc[c] = "recv"
          /\ ws_state[c] = "CONNECTED"
          /\ ws_cycles < MaxCycles
          /\ ws_cycles' = ws_cycles + 1
       \/ /\ exc = "Exception"
          /\ ws_pc[c] \in {"analyze", "advise"}
          /\ ws_cycles' = ws_cycles
    /\ IF ErrorCaughtBy(exc) \in {"_handle_message", "_message_loop"}
       THEN /\ ws_pc' = [ws_pc EXCEPT ![c] = "error"]
            /\ UNCHANGED <<ws_clients, ws_steady>>
       ELSE /\ ws_pc' = [ws_pc EXCEPT ![c] = "closed"]
            /\ ws_clients' = ws_clients \ {c}
            /\ ws_steady' = [t \in WsClients |-> ws_steady[t] \ {c}]
    /\ UNCHANGED <<ws_state, ws_advice, ws_idx, ws_emitted, ws_engine_tasks, ws_received, ws_failed,
                   ws_errors>>

\* _send_error returns: the message reached the client, or the send failed
\* and _send_message swallowed the failure; the loop awaits the next message
WsErrorSent(c, delivered) ==
    /\ ws_pc[c] = "error"
    /\ MayRun(c)
    /\ delivered => ws_state[c] = "CONNECTED"
    /\ ws_errors' = IF delivered THEN [ws_errors EXCEPT ![c] = @ + 1] ELSE ws_errors
    /\ ws_pc' = [ws_pc EXCEPT ![c] = "recv"]
    /\ UNCHANGED <<ws_clients, ws_state, ws_advice, ws_idx, ws_emitted, ws_engine_tasks, ws_cycles,
                   ws_received, ws_steady, ws_failed>>

(***************************************************************************)
(* Life of a session of the websocket SessionManager: created by the REST  *)
(* route or by the first connection, deleted by the REST route or by a     *)
(* handler that found the session empty at its exit and again after its    *)
(* sleep (handle_connection's finally).                                    *)
(***************************************************************************)
\* asyncio.sleep(60) of handle_connection's clean-up, seconds
EmptySessionDelay == 60

\* the clock advances in steps of half the delay
ReapClockStep == EmptySessionDelay \div 2

VARIABLES
    ws_session,    \* session_id \in SessionManager._sessions
    ws_now,        \* the time
    ws_reapers,    \* wake-up times of the handlers sleeping in their clean-up
    ws_last_detached \* history: when the last attached client was removed (-1: never)

reapVars == <<ws_session, ws_now, ws_reapers, ws_errors, ws_last_detached>>

ReapInit ==
    /\ ws_session = FALSE
    /\ ws_now = 0
    /\ ws_reapers = {}
    /\ ws_errors = [c \in WsClients |-> 0]
    /\ ws_last_detached = -1

\* POST /session: create_session, no client is attached
RestCreateSession ==
    /\ ~ws_session
    /\ ws_now < MaxReapTime
    /\ ws_session' = TRUE
    /\ UNCHANGED <<wsVars, ws_now, ws_reapers, ws_errors, ws_last_detached>>

\* DELETE /session/{id}: delete_session closes the sockets of the clients
\* and forgets the session and its client set
RestDeleteSession ==
    /\ ws_session
    /\ \A c \in WsClients : ~HoldsLoop(ws_pc[c])
    /\ ws_session' = FALSE
    /\ ws_clients' = {}
    /\ ws_state' = [c \in WsClients |-> IF c \in ws_clients THEN "DISCONNECTED" ELSE ws_state[c]]
    /\ ws_steady' = [t \in WsClients |-> ws_steady[t] \ ws_clients]
    /\ ws_last_detached' = IF ws_clients # {} THEN ws_now ELSE ws_last_detached
    /\ UNCHANGED <<ws_pc, ws_advice, ws_idx, ws_emitted, ws_engine_tasks, ws_cycles, ws_received, ws_failed,
                   ws_now, ws_reapers, ws_errors>>

\* handle_connection: get_session, create_session when there is none,
\* add_client
ReapConnect(c) ==
    /\ ws_now < MaxReapTime
    /\ WsConnect(c)
    /\ ws_session' = TRUE
    /\ UNCHANGED <<ws_now, ws_reapers, ws_errors, ws_last_detached>>

\* handle_connection's finally: remove_client, and the handler goes to sleep
\* when get_clients is empty
ReapHandlerExit(c) ==
    /\ WsHandlerExit(c)
    /\ ws_reapers' = IF ws_clients' = {} THEN ws_reapers \cup {ws_now + EmptySessionDelay}
                     ELSE ws_reapers
    /\ ws_last_detached' = IF ws_clients # {} /\ ws_clients' = {} THEN ws_now
                            ELSE ws_last_detached
    /\ UNCHANGED <<ws_session, ws_now, ws_errors>>

\* the sleep of a handler ends: delete_session when get_clients is still empty
ReapWake ==
    \E t \in ws_reapers :
        /\ ws_now >= t
        /\ \A c \in WsClients : ~HoldsLoop(ws_pc[c])
        /\ ws_reapers' = ws_reapers \ {t}
        /\ ws_session' = IF ws_clients = {} THEN FALSE ELSE ws_session
        /\ UNCHANGED <<wsVars, ws_now, ws_errors, ws_last_detached>>

\* time passes; a handler whose sleep is over wakes before the clock moves on
ReapTick ==
    /\ ws_now < MaxReapTime \/ ws_reapers # {}
    /\ \A t \in ws_reapers : ws_now < t
    /\ ws_now' = ws_now + ReapClockStep
    /\ UNCHANGED <<wsVars, ws_session, ws_reapers, ws_errors, ws_last_detached>>

(***************************************************************************)
(* PersistentSessionManager (session_manager.py).  Delays are in           *)
(* milliseconds.                                                           *)
(***************************************************************************)
PsmSessions == {"s1"}
PsmClients == {"c1", "c2"}

\* SessionConfig
heartbeat_timeout_s == 15
session_timeout_s == 300
cleanup_interval_s == 60
max_reconnect_attempts == 5
\* the two delays in milliseconds
initial_reconnect_delay_s == 1000
max_reconnect_delay_s == 30000
reconnect_backoff_multiplier == 2

\* the clock advances in steps of one heartbeat timeout
ClockStep == heartbeat_timeout_s

\* random.random() * 2 - 1 of the jitter, in thousandths: both ends
JitterValues == {-1000, 1000}

VARIABLES
    now,                     \* time.time()
    psm_sessions,            \* keys of PersistentSessionManager._sessions
    psm_last_activity,       \* SessionData.last_activity
    psm_clients,             \* keys of SessionData.clients
    psm_last_heartbeat,      \* ClientConnection.last_heartbeat
    psm_reconnect_attempts,  \* ClientConnection.reconnect_attempts
    psm_reconnect_delays,    \* SessionData.reconnect_delays (-1: no entry)
    psm_cleanup_task,        \* _cleanup_task is running
    psm_next_sweep,          \* when the sleep of _cleanup_loop ends
    psm_known,               \* observer: clients that have been registered
    psm_attempt_no,          \* observer: attempts of a pair since its last
                             \* registration or reset
    psm_last_attempt,        \* observer: the record_reconnect_attempt just made
    psm_last_sweep,          \* observer: what the sweep just made did
    psm_last_add,            \* observer: the add_client just made, and the
                             \* reconnect delay the client had before it
    psm_last_create          \* observer: the create_session just made with an
                             \* ID that exists, and the session before it

psmVars == <<now, psm_sessions, psm_last_activity, psm_clients, psm_last_heartbeat,
             psm_reconnect_attempts, psm_reconnect_delays, psm_cleanup_task,
             psm_next_sweep, psm_known, psm_attempt_no, psm_last_attempt, psm_last_sweep,
             psm_last_add, psm_last_create>>

NoAttempt == [session |-> None, client |-> None, ok |-> TRUE, no |-> 0]
NoSweep == [removed |-> {}, kept |-> {}, deleted |-> {}]
NoAdd == [session |-> None, client |-> None, delay_before |-> 0]
NoCreate == [session |-> None]

PsmInit ==
    /\ now = 0
    /\ psm_sessions = {}
    /\ psm_last_activity = [s \in PsmSessions |-> -1]
    /\ psm_clients = [s \in PsmSessions |-> {}]
    /\ psm_last_heartbeat = [s \in PsmSessions |-> [c \in PsmClients |-> -1]]
    /\ psm_reconnect_attempts = [s \in PsmSessions |-> [c \in PsmClients |-> 0]]
    /\ psm_reconnect_delays = [s \in PsmSessions |-> [c \in PsmClients |-> -1]]
    /\ psm_cleanup_task = FALSE
    /\ psm_next_sweep = -1
    /\ psm_known = [s \in PsmSessions |-> {}]
    /\ psm_attempt_no = [s \in PsmSessions |-> [c \in PsmClients |-> 0]]
    /\ psm_last_attempt = NoAttempt
    /\ psm_last_sweep = NoSweep
    /\ psm_last_add = NoAdd
    /\ psm_last_create = NoCreate

\* ClientConnection.is_stale
ClientIsStaleBySessionTimeout(last_heartbeat) == (now - last_heartbeat) > session_timeout_s

ClientIsStale(last_heartbeat) == (now - last_heartbeat) > heartbeat_timeout_s

\* SessionData.is_stale(session_timeout_s)
SessionIsStale(s) == (now - psm_last_activity[s]) > session_timeout_s

\* get_session on an existing session: update_activity
ActivityNotTouched(s) == psm_last_activity

TouchActivity(s) == [psm_last_activity EXCEPT ![s] = now]

\* create_session (a second create returns the existing session unchanged)
PsmCreateSession(s) ==
    /\ s \notin psm_sessions
    /\ psm_sessions' = psm_sessions \cup {s}
    /\ psm_last_activity' = [psm_last_activity EXCEPT ![s] = now]
    /\ psm_clients' = [psm_clients EXCEPT ![s] = {}]
    /\ psm_last_heartbeat' = [psm_last_heartbeat EXCEPT ![s] = [c \in PsmClients |-> -1]]
    /\ psm_reconnect_attempts' = [psm_reconnect_attempts EXCEPT ![s] = [c \in PsmClients |-> 0]]
    /\ psm_reconnect_delays' = [psm_reconnect_delays EXCEPT ![s] = [c \in PsmClients |-> -1]]
    /\ psm_last_attempt' = NoAttempt
    /\ psm_last_sweep' = NoSweep
    /\ psm_last_add' = NoAdd
    /\ psm_last_create' = NoCreate
    /\ UNCHANGED <<now, psm_cleanup_task, psm_next_sweep, psm_known, psm_attempt_no>>

\* the SessionData of an existing session; constructed tells whether the
\* call that returned it has built its state, analyzer and advice engine
SessionView(s) ==
    [last_activity |-> psm_last_activity[s], clients |-> psm_clients[s],
     last_heartbeat |-> psm_last_heartbeat[s],
     reconnect_attempts |-> psm_reconnect_attempts[s],
     reconnect_delays |-> psm_reconnect_delays[s], constructed |-> FALSE]

\* SessionData(state, analyzer, advice_engine) of new objects
FreshSession ==
    [last_activity |-> now, clients |-> {}, last_heartbeat |-> [c \in PsmClients |-> -1],
     reconnect_attempts |-> [c \in PsmClients |-> 0],
     reconnect_delays |-> [c \in PsmClients |-> -1], constructed |-> TRUE]

CreateSessionAlwaysFresh(s) == FreshSession

\* create_session: the SessionData it returns and leaves in _sessions
CreateSession(s) == IF s \in psm_sessions THEN SessionView(s) ELSE FreshSession

\* create_session with the ID of a session that exists
PsmCreateExisting(s) ==
    /\ s \in psm_sessions
    /\ LET data == CreateSession(s)
       IN /\ psm_last_activity' = [psm_last_activity EXCEPT ![s] = data.last_activity]
          /\ psm_clients' = [psm_clients EXCEPT ![s] = data.clients]
          /\ psm_last_heartbeat' = [psm_last_heartbeat EXCEPT ![s] = data.last_heartbeat]
          /\ psm_reconnect_attempts' = [psm_reconnect_attempts EXCEPT ![s] = data.reconnect_attempts]
          /\ psm_reconnect_delays' = [psm_reconnect_delays EXCEPT ![s] = data.reconnect_delays]
          /\ psm_last_create' = [session |-> s, before |-> SessionView(s),
                                 constructed |-> data.constructed]
    /\ psm_last_attempt' = NoAttempt
    /\ psm_last_sweep' = NoSweep
    /\ psm_last_add' = NoAdd
    /\ UNCHANGED <<now, psm_sessions, psm_cleanup_task, psm_next_sweep, psm_known, psm_attempt_no>>

\* the fields of a session that is deleted, and of a client that is removed
SessionGone(f, s, v) == [f EXCEPT ![s] = [c \in PsmClients |-> v]]
ClientGone(f, s, c, v) == [f EXCEPT ![s][c] = v]

\* delete_session
PsmDeleteSession(s) ==
    /\ s \in psm_sessions
    /\ psm_sessions' = psm_sessions \ {s}
    /\ psm_last_activity' = [psm_last_activity EXCEPT ![s] = -1]
    /\ psm_clients' = [psm_clients EXCEPT ![s] = {}]
    /\ psm_last_heartbeat' = SessionGone(psm_last_heartbeat, s, -1)
    /\ psm_reconnect_attempts' = SessionGone(psm_reconnect_attempts, s, 0)
    /\ psm_reconnect_delays' = SessionGone(psm_reconnect_delays, s, -1)
    /\ psm_attempt_no' = SessionGone(psm_attempt_no, s, 0)
    /\ psm_known' = [psm_known EXCEPT ![s] = {}]
    /\ psm_last_attempt' = NoAttempt
    /\ psm_last_sweep' = NoSweep
    /\ psm_last_add' = NoAdd
    /\ psm_last_create' = NoCreate
    /\ UNCHANGED <<now, psm_cleanup_task, psm_next_sweep>>

\* get_reconnect_delay on an existing session
CurrentDelay(s, c) ==
    IF psm_reconnect_delays[s][c] = -1 THEN initial_reconnect_delay_s
    ELSE psm_reconnect_delays[s][c]

PopDelayKeepsEntry(delays, s, c) == delays

\* session.reconnect_delays.pop(client_id, None)
PopDelay(delays, s, c) == [delays EXCEPT ![s][c] = -1]

\* add_client on an existing session: a fresh ClientConnection, and the
\* reconnection delay of the client is forgotten
PsmAddClient(s, c) ==
    /\ s \in psm_sessions
    /\ psm_clients' = [psm_clients EXCEPT ![s] = @ \cup {c}]
    /\ psm_last_heartbeat' = [psm_last_heartbeat EXCEPT ![s][c] = now]
    /\ psm_reconnect_attempts' = [psm_reconnect_attempts EXCEPT ![s][c] = 0]
    /\ psm_last_activity' = [psm_last_activity EXCEPT ![s] = now]
    /\ psm_reconnect_delays' = PopDelay(psm_reconnect_delays, s, c)
    /\ psm_known' = [psm_known EXCEPT ![s] = @ \cup {c}]
    /\ psm_attempt_no' = [psm_attempt_no EXCEPT ![s][c] = 0]
    /\ psm_last_attempt' = NoAttempt
    /\ psm_last_sweep' = NoSweep
    /\ psm_last_add' = [session |-> s, client |-> c, delay_before |-> CurrentDelay(s, c)]
    /\ psm_last_create' = NoCreate
    /\ UNCHANGED <<now, psm_sessions, psm_cleanup_task, psm_next_sweep>>

\* remove_client of a registered client
PsmRemoveClient(s, c) ==
    /\ s \in psm_sessions
    /\ c \in psm_clients[s]
    /\ psm_last_activity' = TouchActivity(s)
    /\ psm_clients' = [psm_clients EXCEPT ![s] = @ \ {c}]
    /\ psm_last_heartbeat' = ClientGone(psm_last_heartbeat, s, c, -1)
    /\ psm_reconnect_attempts' = ClientGone(psm_reconnect_attempts, s, c, 0)
    /\ psm_last_attempt' = NoAttempt
    /\ psm_last_sweep' = NoSweep
    /\ psm_last_add' = NoAdd
    /\ psm_last_create' = NoCreate
    /\ UNCHANGED <<now, psm_sessions, psm_reconnect_delays, psm_cleanup_task,
                   psm_next_sweep, psm_known, psm_attempt_no>>

\* update_client_heartbeat of a registered client
PsmUpdateClientHeartbeat(s, c) ==
    /\ s \in psm_sessions
    /\ c \in psm_clients[s]
    /\ psm_last_heartbeat[s][c] # now
    /\ psm_last_activity' = TouchActivity(s)
    /\ psm_last_heartbeat' = [psm_last_heartbeat EXCEPT ![s][c] = now]
    /\ psm_last_attempt' = NoAttempt
    /\ psm_last_sweep' = NoSweep
    /\ psm_last_add' = NoAdd
    /\ psm_last_create' = NoCreate
    /\ UNCHANGED <<now, psm_sessions, psm_clients, psm_reconnect_attempts,
                   psm_reconnect_delays, psm_cleanup_task, psm_next_sweep, psm_known,
                   psm_attempt_no>>

Min(a, b) == IF a < b THEN a ELSE b

\* next_delay of record_reconnect_attempt: min(current * multiplier, max), then
\* the jitter of +-20%
NextDelay(current_delay, jitter) ==
    LET capped == Min(current_delay * reconnect_backoff_multiplier, max_reconnect_delay_s)
    IN capped + (capped * 2 * jitter) \div 10000

\* record_reconnect_attempt on an existing session, by a client that has been
\* connected before: (should_continue, next_delay)
PsmRecordReconnectAttempt(s, c, jitter) ==
    /\ s \in psm_sessions
    /\ c \in psm_known[s]
    /\ psm_attempt_no[s][c] < max_reconnect_attempts + MaxExtraAttempts
    /\ psm_last_activity' = TouchActivity(s)
    /\ psm_attempt_no' = [psm_attempt_no EXCEPT ![s][c] = @ + 1]
    /\ LET attempts == IF c \in psm_clients[s] THEN psm_reconnect_attempts[s][c] + 1
                       ELSE psm_reconnect_attempts[s][c]
           rejected == c \in psm_clients[s] /\ attempts >= max_reconnect_attempts
       IN /\ psm_reconnect_attempts' = [psm_reconnect_attempts EXCEPT ![s][c] = attempts]
          /\ psm_reconnect_delays' =
                IF rejected THEN psm_reconnect_delays
                ELSE [psm_reconnect_delays EXCEPT
                        ![s][c] = NextDelay(CurrentDelay(s, c), jitter)]
          /\ psm_last_attempt' = [session |-> s, client |-> c, ok |-> ~rejected,
                                  no |-> psm_attempt_no[s][c] + 1]
    /\ psm_last_sweep' = NoSweep
    /\ psm_last_add' = NoAdd
    /\ psm_last_create' = NoCreate
    /\ UNCHANGED <<now, psm_sessions, psm_clients, psm_last_heartbeat, psm_cleanup_task,
                   psm_next_sweep, psm_known>>

\* reset_reconnect_state
PsmResetReconnectState(s, c) ==
    /\ s \in psm_sessions
    /\ psm_attempt_no[s][c] > 0
    /\ psm_last_activity' = TouchActivity(s)
    /\ psm_reconnect_delays' = [psm_reconnect_delays EXCEPT ![s][c] = -1]
    /\ psm_reconnect_attempts' = [psm_reconnect_attempts EXCEPT ![s][c] = 0]
    /\ psm_attempt_no' = [psm_attempt_no EXCEPT ![s][c] = 0]
    /\ psm_last_attempt' = NoAttempt
    /\ psm_last_sweep' = NoSweep
    /\ psm_last_add' = NoAdd
    /\ psm_last_create' = NoCreate
    /\ UNCHANGED <<now, psm_sessions, psm_clients, psm_last_heartbeat, psm_cleanup_task,
                   psm_next_sweep, psm_known>>

\* start_cleanup_task: _cleanup_loop begins with its sleep
PsmStartCleanupTask ==
    /\ ~psm_cleanup_task
    /\ now <= MaxTime
    /\ psm_cleanup_task' = TRUE
    /\ psm_next_sweep' = now + cleanup_interval_s
    /\ psm_last_attempt' = NoAttempt
    /\ psm_last_sweep' = NoSweep
    /\ psm_last_add' = NoAdd
    /\ psm_last_create' = NoCreate
    /\ UNCHANGED <<now, psm_sessions, psm_last_activity, psm_clients, psm_last_heartbeat,
                   psm_reconnect_attempts, psm_reconnect_delays, psm_known, psm_attempt_no>>

\* stop_cleanup_task: the task is cancelled in its sleep
PsmStopCleanupTask ==
    /\ psm_cleanup_task
    /\ psm_cleanup_task' = FALSE
    /\ psm_next_sweep' = -1
    /\ psm_last_attempt' = NoAttempt
    /\ psm_last_sweep' = NoSweep
    /\ psm_last_add' = NoAdd
    /\ psm_last_create' = NoCreate
    /\ UNCHANGED <<now, psm_sessions, psm_last_activity, psm_clients, psm_last_heartbeat,
                   psm_reconnect_attempts, psm_reconnect_delays, psm_known, psm_attempt_no>>

\* the clients _cleanup_stale collects in stale_clients
StaleClients(s) == {c \in psm_clients[s] : ClientIsStale(psm_last_heartbeat[s][c])}

\* the sessions _cleanup_stale collects in stale_sessions
StaleSessions == {s \in psm_sessions : SessionIsStale(s)}

\* one turn of _cleanup_loop after its sleep: _cleanup_stale, which has no
\* await inside, then the next sleep
PsmCleanupStale ==
    /\ psm_cleanup_task
    /\ now >= psm_next_sweep
    /\ psm_next_sweep' = now + cleanup_interval_s
    /\ psm_sessions' = psm_sessions \ StaleSessions
    /\ psm_clients' = [s \in PsmSessions |->
                          IF s \in StaleSessions THEN {}
                          ELSE psm_clients[s] \ StaleClients(s)]
    /\ psm_last_heartbeat' = [s \in PsmSessions |-> [c \in PsmClients |->
                          IF s \in StaleSessions \/ c \in StaleClients(s) THEN -1
                          ELSE psm_last_heartbeat[s][c]]]
    /\ psm_reconnect_attempts' = [s \in PsmSessions |-> [c \in PsmClients |->
                          IF s \in StaleSessions \/ c \in StaleClients(s) THEN 0
                          ELSE psm_reconnect_attempts[s][c]]]
    /\ psm_reconnect_delays' = [s \in PsmSessions |-> [c \in PsmClients |->
                          IF s \in StaleSessions THEN -1 ELSE psm_reconnect_delays[s][c]]]
    /\ psm_last_activity' = [s \in PsmSessions |->
                          IF s \in StaleSessions THEN -1 ELSE psm_last_activity[s]]
    /\ psm_known' = [s \in PsmSessions |->
                          IF s \in StaleSessions THEN {} ELSE psm_known[s]]
    /\ psm_attempt_no' = [s \in PsmSessions |-> [c \in PsmClients |->
                          IF s \in StaleSessions THEN 0 ELSE psm_attempt_no[s][c]]]
    /\ psm_last_add' = NoAdd
    /\ psm_last_create' = NoCreate
    /\ psm_last_sweep' =
          [removed |-> {p \in PsmSessions \X PsmClients :
                       p[1] \in psm_sessions /\ p[2] \in StaleClients(p[1])},
           kept |-> {p \in PsmSessions \X PsmClients :
                       /\ p[1] \in psm_sessions \ StaleSessions
                       /\ p[2] \in psm_clients[p[1]] \ StaleClients(p[1])},
           deleted |-> StaleSessions]
    /\ psm_last_attempt' = NoAttempt
    /\ UNCHANGED <<now, psm_cleanup_task>>

\* a registered client is stale while the cleanup task runs
StaleWaiting ==
    /\ psm_cleanup_task
    /\ \E s \in psm_sessions : \E c \in psm_clients[s] :
          (now - psm_last_heartbeat[s][c]) > heartbeat_timeout_s

\* time passes; a sweep that is due runs before the clock moves on
Tick ==
    /\ now < MaxTime \/ StaleWaiting
    /\ psm_cleanup_task => now < psm_next_sweep
    /\ now' = now + ClockStep
    /\ psm_last_attempt' = NoAttempt
    /\ psm_last_sweep' = NoSweep
    /\ psm_last_add' = NoAdd
    /\ psm_last_create' = NoCreate
    /\ UNCHANGED <<psm_sessions, psm_last_activity, psm_clients, psm_last_heartbeat,
                   psm_reconnect_attempts, psm_reconnect_delays, psm_cleanup_task,
                   psm_next_sweep, psm_known, psm_attempt_no>>



(***************************************************************************)
(* AdviceEngine (advice_engine.py), called with apply_smoothing=False so   *)
(* that the generators see the indicators of the analysis result.  Beat    *)
(* distances are in milliseconds, focal lengths in mm, bbox coordinates in *)
(* thousandths of the frame.                                               *)
(***************************************************************************)
\* HysteresisConfig
consistent_cycles_required == 2
category_cooldown_s == 5

\* AdviceEngineConfig
speed_cv_warning_threshold == 500
speed_optimal_min == 5
speed_optimal_max == 15
subject_deviation_threshold == 200
subject_occupancy_max == 800
subject_occupancy_min == 100
\* the two beat windows in milliseconds
beat_upcoming_window_s == 500
beat_now_window_s == 100
telephoto_focal_length_mm == 50
telephoto_smoothness_threshold == 500
min_confidence == 50

AdviceCategories == {"stability", "speed", "composition", "beat", "equipment"}

\* _init_suppression_rules / get_suppression_rules
SuppressionRules(motion_type) ==
    CASE motion_type \in {"dolly_in", "dolly_out"} -> {"subject_size_change"}
      [] motion_type = "pan" -> {"horizontal_drift"}
      [] motion_type = "tilt" -> {"vertical_drift"}
      [] motion_type = "track" -> {"subject_size_change", "horizontal_drift"}
      [] OTHER -> {}

ShouldSuppressNothing(motion_type, category) == FALSE

\* should_suppress
ShouldSuppress(motion_type, category) == category \in SuppressionRules(motion_type)

\* is_on_cooldown: an absent entry reads as time 0
IsOnCooldownIgnoresRecord(lt, category, t) == t - 0 < category_cooldown_s

IsOnCooldown(lt, category, t) ==
    LET last_time == IF lt[category] = -1 THEN 0 ELSE lt[category]
    IN (t - last_time) < category_cooldown_s

\* The generators work on a record e of the controller's dictionaries
\* (cs, cc, ps, lt), the payloads returned so far (out) and, for the
\* observer, the time of the latest payload of each AdviceCategory (lc) and of
\* each cooldown key (lk) and the triggers whose condition held on the
\* indicators of the call before (held).

\* is_consistent: the dictionaries afterwards
IsConsistent(e, category, should_trigger) ==
    LET pending_state == IF should_trigger THEN "trigger" ELSE "normal"
    IN IF pending_state = e.ps[category]
       THEN [e EXCEPT !.cc[category] = @ + 1]
       ELSE [e EXCEPT !.ps[category] = pending_state, !.cc[category] = 1]

\* is_consistent: the value returned, read from the dictionaries afterwards
ConsistentOk(e, category, should_trigger) ==
    should_trigger /\ e.cc[category] >= consistent_cycles_required

\* record_advice
RecordAdvice(e, key, t) == [e EXCEPT !.lt[key] = t]

Gap(last, t) == IF last = -1 THEN -1 ELSE t - last

\* a payload is built, its cooldown key recorded, and the payload returned
Emit(e, category, key, priority, trigger, t) ==
    LET r == RecordAdvice(e, key, t)
    IN [r EXCEPT !.out = Append(@, [category |-> category, key |-> key,
                                    priority |-> priority, trigger |-> trigger,
                                    gap_cat |-> Gap(e.lc[category], t),
                                    gap_key |-> Gap(e.lk[key], t),
                                    held_before |-> trigger \in e.held]),
                 !.lc[category] = t,
                 !.lk[key] = t]

\* _generate_stability_advice
GenerateStabilityAdvice(e, motion_smoothness, t) ==
    IF IsOnCooldown(e.lt, "stability", t) THEN e
    ELSE
    LET state == CheckThresholdMultiLevel(e.cs["stability"], motion_smoothness,
                     StabilityCriticalEnter, StabilityCriticalExit,
                     StabilityWarningEnter, StabilityWarningExit, TRUE)
        e1 == [e EXCEPT !.cs["stability"] = state]
        e2 == IF state # "critical" THEN IsConsistent(e1, "stability", state = "warning")
              ELSE e1
        held_back == /\ state # "critical"
                     /\ ~ConsistentOk(e2, "stability", state = "warning")
                     /\ (state # "normal" \/ motion_smoothness <= stability_warning_threshold)
    IN IF held_back THEN e2
       ELSE IF state = "critical"
       THEN Emit(e2, "stability", "stability", "critical", "stability_critical", t)
       ELSE IF state = "warning"
       THEN Emit(e2, "stability", "stability", "warning", "stability_warning", t)
       ELSE IF /\ motion_smoothness > stability_warning_threshold
               /\ ~IsOnCooldown(e2.lt, "stability_positive", t)
       THEN Emit(e2, "stability", "stability_positive", "positive", "stability_positive", t)
       ELSE e2

\* cv > speed_cv_warning_threshold and cv < speed_cv_warning_threshold for
\* cv = sqrt(speed_variance) / avg_speed (0 when avg_speed is 0), squared
CvAbove(speed_variance, avg_speed) ==
    /\ avg_speed > 0
    /\ speed_variance * 1000 * 1000 > speed_cv_warning_threshold * speed_cv_warning_threshold
                                        * avg_speed * avg_speed

CvBelow(speed_variance, avg_speed) ==
    \/ avg_speed <= 0
    \/ speed_variance * 1000 * 1000 < speed_cv_warning_threshold * speed_cv_warning_threshold
                                        * avg_speed * avg_speed

\* _generate_speed_advice
GenerateSpeedAdvice(e, avg_speed, speed_variance, t) ==
    IF IsOnCooldown(e.lt, "speed", t) THEN e
    ELSE
    LET level == CheckThreshold(e.cs["speed_fast"], avg_speed,
                                SpeedFastEnter, SpeedFastExit, FALSE)
        e1 == [e EXCEPT !.cs["speed_fast"] = level]
    IN IF level = "warning"
       THEN LET e2 == IsConsistent(e1, "speed_fast", TRUE)
            IN IF ConsistentOk(e2, "speed_fast", TRUE)
               THEN Emit(e2, "speed", "speed", "warning", "speed_fast", t)
               ELSE e2
       ELSE IF CvAbove(speed_variance, avg_speed)
       THEN LET e2 == IsConsistent(e1, "speed_uneven", TRUE)
            IN IF ConsistentOk(e2, "speed_uneven", TRUE)
               THEN Emit(e2, "speed", "speed", "warning", "speed_uneven", t)
               ELSE e2
       ELSE IF /\ speed_optimal_min <= avg_speed
               /\ avg_speed <= speed_optimal_max
               /\ CvBelow(speed_variance, avg_speed)
               /\ ~IsOnCooldown(e1.lt, "speed_positive", t)
       THEN Emit(e1, "speed", "speed_positive", "positive", "speed_positive", t)
       ELSE e1

\* subject_bbox is None
NoBBox == [x |-> -1, y |-> -1, w |-> 0, h |-> 0]

\* squared distance between the bbox centre and a point, both in 1/3000 of
\* the frame so that the rule-of-thirds points are whole numbers
Dist2(cx3, cy3, px3, py3) == (cx3 - px3) * (cx3 - px3) + (cy3 - py3) * (cy3 - py3)

SetMin(S) == CHOOSE m \in S : \A n \in S : m <= n

\* _check_subject_position: min_dist > subject_deviation_threshold
Deviates(bbox) ==
    LET cx3 == 3 * bbox.x + (3 * bbox.w) \div 2
        cy3 == 3 * bbox.y + (3 * bbox.h) \div 2
        min_dist2 == SetMin({Dist2(cx3, cy3, 1500, 1500)} \cup
                            {Dist2(cx3, cy3, tx, ty) : tx \in {1000, 2000}, ty \in {1000, 2000}})
    IN min_dist2 > (3 * subject_deviation_threshold) * (3 * subject_deviation_threshold)

\* _check_subject_position: the side the subject should move to
PositionHint(bbox) ==
    LET center_x == bbox.x + bbox.w \div 2
        center_y == bbox.y + bbox.h \div 2
    IN IF center_x < 400 THEN "right"
       ELSE IF center_x > 600 THEN "left"
       ELSE IF center_y < 400 THEN "down"
       ELSE IF center_y > 600 THEN "up"
       ELSE None

\* _generate_direction_hint (every angle maps to a direction key)
GenerateDirectionHint(e, motion_type, t) ==
    IF IsOnCooldown(e.lt, "composition_direction", t) THEN e
    ELSE IF motion_type \in {"static", "handheld"} THEN e
    ELSE Emit(e, "composition", "composition_direction", "info", "direction_hint", t)

\* _check_subject_position
CheckSubjectPosition(e, bbox, t) ==
    IF IsOnCooldown(e.lt, "composition_position", t) THEN e
    ELSE IF Deviates(bbox) /\ PositionHint(bbox) # None
    THEN LET e2 == IsConsistent(e, "composition_position", TRUE)
         IN IF ConsistentOk(e2, "composition_position", TRUE)
            THEN Emit(e2, "composition", "composition_position", "warning", "off_center", t)
            ELSE e2
    ELSE e

\* _check_occupancy
CheckOccupancy(e, subject_occupancy, t) ==
    IF IsOnCooldown(e.lt, "composition_occupancy", t) THEN e
    ELSE IF subject_occupancy > subject_occupancy_max
    THEN LET e2 == IsConsistent(e, "composition_occupancy_large", TRUE)
         IN IF ConsistentOk(e2, "composition_occupancy_large", TRUE)
            THEN Emit(e2, "composition", "composition_occupancy", "warning", "too_large", t)
            ELSE e2
    ELSE IF subject_occupancy < subject_occupancy_min
    THEN LET e2 == IsConsistent(e, "composition_occupancy_small", TRUE)
         IN IF ConsistentOk(e2, "composition_occupancy_small", TRUE)
            THEN Emit(e2, "composition", "composition_occupancy", "warning", "too_small", t)
            ELSE e2
    ELSE e

\* _generate_composition_advice when the subject is lost; lost_since is
\* _subject_lost_since before the call
GenerateSubjectLost(e, lost_since, t) ==
    IF lost_since = -1 /\ ~IsOnCooldown(e.lt, "composition_lost", t)
    THEN Emit(e, "composition", "composition_lost", "warning", "subject_lost", t)
    ELSE e

\* _generate_composition_advice when the subject is in view
GenerateCompositionAdvice(e, motion_type, bbox, subject_occupancy, t) ==
    LET e1 == GenerateDirectionHint(e, motion_type, t)
        e2 == IF /\ bbox # NoBBox
                 /\ ~ShouldSuppress(motion_type, "horizontal_drift")
                 /\ ~ShouldSuppress(motion_type, "vertical_drift")
              THEN CheckSubjectPosition(e1, bbox, t)
              ELSE e1
    IN IF ~ShouldSuppress(motion_type, "subject_size_change")
       THEN CheckOccupancy(e2, subject_occupancy, t)
       ELSE e2

\* beat_timestamps is None or empty
NoBeat == -1

\* _generate_beat_advice; time_to_beat is nearest_beat - current_time
GenerateBeatAdvice(e, time_to_beat, t) ==
    IF time_to_beat = NoBeat THEN e
    ELSE IF IsOnCooldown(e.lt, "beat", t) THEN e
    ELSE IF time_to_beat <= beat_now_window_s
    THEN Emit(e, "beat", "beat", "info", "beat_now", t)
    ELSE IF time_to_beat <= beat_upcoming_window_s
    THEN Emit(e, "beat", "beat", "info", "beat_upcoming", t)
    ELSE e

\* focal_length_mm is None
NoFocalLength == -1

\* _generate_equipment_advice
GenerateEquipmentAdvice(e, motion_smoothness, focal_length_mm, t) ==
    IF IsOnCooldown(e.lt, "equipment", t) THEN e
    ELSE
    LET telephoto == /\ focal_length_mm # NoFocalLength
                     /\ focal_length_mm > telephoto_focal_length_mm
                     /\ motion_smoothness < telephoto_smoothness_threshold
        e1 == IF telephoto THEN IsConsistent(e, "equipment_telephoto", TRUE) ELSE e
    IN IF telephoto /\ ConsistentOk(e1, "equipment_telephoto", TRUE)
       THEN Emit(e1, "equipment", "equipment", "warning", "telephoto", t)
       ELSE IF motion_smoothness < stability_critical_threshold
       THEN LET e2 == IsConsistent(e1, "equipment_stabilization", TRUE)
            IN IF ConsistentOk(e2, "equipment_stabilization", TRUE)
               THEN Emit(e2, "equipment", "equipment", "info", "stabilization", t)
               ELSE e2
       ELSE e1

(***************************************************************************)
(* SmoothingFilter (smoothing.py) with the default SmoothingFilterConfig:  *)
(* the Kalman mode.  Estimates are kept in hundredths of the unit of the   *)
(* indicator, covariances in ten-thousandths; a quotient is rounded down.  *)
(* detect_anomaly compares squares, which is exact for indicators that     *)
(* differ from the mean of the window by nothing or by more than 0.002.    *)
(***************************************************************************)
window_size == 3
anomaly_threshold == 2
anomaly_suppress_cycles == 2
process_noise == 100
measurement_noise == 1000
initial_estimate_error == 10000

\* an estimate is kept in hundredths of the unit of its indicator
EstimateScale == 100

SmoothedIndicators ==
    {"motion_smoothness", "avg_speed", "speed_variance", "primary_direction_deg",
     "subject_occupancy", "confidence"}

VARIABLES
    sf_history,            \* SmoothingFilter._history (motion_smoothness, avg_speed)
    sf_kalman_states,      \* SmoothingFilter._kalman_states
    sf_anomaly_countdown,  \* SmoothingFilter._anomaly_countdown
    sf_initialized,        \* SmoothingFilter._initialized
    sf_cycles,             \* calls of generate_advice so far
    sf_log                 \* history: what each call of generate_advice with
                           \* apply_smoothing did

sfVars == <<sf_history, sf_kalman_states, sf_anomaly_countdown, sf_initialized,
            sf_cycles, sf_log>>

SmoothingInit ==
    /\ sf_history = <<>>
    /\ sf_kalman_states = [n \in SmoothedIndicators |->
                             [estimate |-> 0, error_covariance |-> initial_estimate_error]]
    /\ sf_anomaly_countdown = 0
    /\ sf_initialized = FALSE
    /\ sf_cycles = 0
    /\ sf_log = <<>>

RECURSIVE SeqSum(_)
SeqSum(q) == IF q = <<>> THEN 0 ELSE Head(q) + SeqSum(Tail(q))

\* detect_anomaly on one indicator: deviation > anomaly_threshold * std, with
\* std = 0.001 for a window of equal values; `unit` is the model's value of 1.0
Deviates2Std(values, z, unit) ==
    LET n == Len(values)
        total == SeqSum(values)
        sq == SeqSum([i \in 1..n |-> (n * values[i] - total) * (n * values[i] - total)])
        dev == Abs(n * z - total)
    IN IF sq > 0
       THEN (n - 1) * dev * dev > anomaly_threshold * anomaly_threshold * sq
       ELSE 1000 * dev > anomaly_threshold * n * unit

\* detect_anomaly
DetectAnomaly(history, in) ==
    /\ Len(history) >= 2
    /\ \/ Deviates2Std([i \in 1..Len(history) |-> history[i].motion_smoothness],
                       in.motion_smoothness, 1000)
       \/ Deviates2Std([i \in 1..Len(history) |-> history[i].avg_speed], in.avg_speed, 1)

\* update: the countdown is decremented, then set again by an anomaly
CountdownAfter(countdown, anomaly) ==
    IF anomaly THEN anomaly_suppress_cycles
    ELSE IF countdown > 0 THEN countdown - 1 ELSE countdown

IsSuppressedAfterOne(countdown) == countdown > 1

\* is_suppressed
IsSuppressed(countdown) == countdown > 0

\* _apply_kalman_filter on one indicator
KalmanStep(state, measurement, initialized) ==
    IF ~initialized
    THEN [estimate |-> measurement * EstimateScale,
          error_covariance |-> initial_estimate_error]
    ELSE LET P_pred == state.error_covariance + process_noise
             z == measurement * EstimateScale
         IN [estimate |-> state.estimate
                            + (P_pred * (z - state.estimate)) \div (P_pred + measurement_noise),
             error_covariance |-> (measurement_noise * P_pred) \div (P_pred + measurement_noise)]

\* IndicatorValues of an analysis result
Measurement(in, name) ==
    CASE name = "motion_smoothness" -> in.motion_smoothness
      [] name = "avg_speed" -> in.avg_speed
      [] name = "speed_variance" -> in.speed_variance
      [] name = "primary_direction_deg" -> in.primary_direction_deg
      [] name = "subject_occupancy" -> in.subject_occupancy
      [] name = "confidence" -> in.confidence

\* the analysis result with the smoothed values generate_advice goes on with
Smoothed(in, states) ==
    [in EXCEPT !.motion_smoothness = states["motion_smoothness"].estimate \div EstimateScale,
               !.avg_speed = states["avg_speed"].estimate \div EstimateScale,
               !.speed_variance = states["speed_variance"].estimate \div EstimateScale,
               !.primary_direction_deg = states["primary_direction_deg"].estimate \div EstimateScale,
               !.subject_occupancy = states["subject_occupancy"].estimate \div EstimateScale]

VARIABLES
    eng_now,                 \* time.time() passed as current_time
    eng_cycles,              \* calls of generate_advice so far
    eng_subject_lost_since,  \* AdviceEngine._subject_lost_since (-1: None)
    eng_emitted,             \* the list the generate_advice just made returned
    eng_last_cat,            \* observer: time of the latest payload of each AdviceCategory
    eng_last_key,            \* observer: time of the latest payload of each cooldown key
    eng_held                 \* observer: the triggers whose condition held on the
                             \* indicators of the latest call

engVars == <<eng_now, eng_cycles, eng_subject_lost_since, eng_emitted, eng_last_cat,
             eng_last_key, eng_held, sfVars>>

EngineInit ==
    /\ eng_now = 1
    /\ eng_cycles = 0
    /\ eng_subject_lost_since = -1
    /\ eng_emitted = <<>>
    /\ eng_last_cat = [c \in AdviceCategories |-> -1]
    /\ eng_last_key = [k \in HystKeys |-> -1]
    /\ eng_held = {}
    /\ SmoothingInit

\* The triggers that go through is_consistent, each with the widest reading of
\* "its condition holds" on the indicators of one call: the level thresholds
\* are read with the exit threshold, whatever the level was before.
TriggersHeld(in) ==
    (IF /\ in.motion_smoothness >= StabilityCriticalEnter
        /\ in.motion_smoothness <= StabilityWarningExit
     THEN {"stability_warning"} ELSE {})
    \cup (IF in.avg_speed >= SpeedFastExit THEN {"speed_fast"} ELSE {})
    \cup (IF CvAbove(in.speed_variance, in.avg_speed) THEN {"speed_uneven"} ELSE {})
    \cup (IF in.subject_bbox # NoBBox /\ Deviates(in.subject_bbox) THEN {"off_center"} ELSE {})
    \cup (IF in.subject_occupancy > subject_occupancy_max THEN {"too_large"} ELSE {})
    \cup (IF in.subject_occupancy < subject_occupancy_min THEN {"too_small"} ELSE {})
    \cup (IF /\ in.focal_length_mm > telephoto_focal_length_mm
             /\ in.motion_smoothness < telephoto_smoothness_threshold
          THEN {"telephoto"} ELSE {})
    \cup (IF in.motion_smoothness < stability_critical_threshold
          THEN {"stabilization"} ELSE {})

\* LOW_CONFIDENCE_STATUS (templates.py): info priority, category stability,
\* recorded under no cooldown key; the observer does not count it as advice
LowConfidenceStatusAsWarning ==
    [category |-> "stability", key |-> None, priority |-> "warning",
     trigger |-> "stability_warning", gap_cat |-> -1, gap_key |-> -1,
     held_before |-> FALSE]

LowConfidenceStatus ==
    [category |-> "stability", key |-> None, priority |-> "info",
     trigger |-> "low_confidence", gap_cat |-> -1, gap_key |-> -1,
     held_before |-> FALSE]

\* the five generators in the order generate_advice calls them
RunGenerators(e, motion_type, lost_since, in, t) ==
    LET e1 == GenerateStabilityAdvice(e, in.motion_smoothness, t)
        e2 == GenerateSpeedAdvice(e1, in.avg_speed, in.speed_variance, t)
        e3 == IF in.subject_lost THEN GenerateSubjectLost(e2, lost_since, t)
              ELSE GenerateCompositionAdvice(e2, motion_type, in.subject_bbox,
                                             in.subject_occupancy, t)
        e4 == GenerateBeatAdvice(e3, in.time_to_beat, t)
    IN GenerateEquipmentAdvice(e4, in.motion_smoothness, in.focal_length_mm, t)

\* generate_advice(analysis_result, beat_timestamps, current_time,
\*                 focal_length_mm=..., apply_smoothing=False)
AdviceCycle(in) ==
    /\ eng_held' = TriggersHeld(in)
    /\ UNCHANGED eng_now
    /\ IF in.confidence < min_confidence
       THEN /\ eng_emitted' = <<LowConfidenceStatus>>
            /\ UNCHANGED <<current_states, consistency_counters, pending_states,
                           last_advice_time, sm_current_state, sm_pending_state,
                           sm_pending_count, sm_inferred, eng_subject_lost_since,
                           eng_last_cat, eng_last_key>>
       ELSE LET inferred_type == InferMotionType(in.avg_speed * 30, 0, in.motion_smoothness,
                                     in.subject_occupancy, in.primary_direction_deg)
                confidence == CalculateConfidence(in.avg_speed * 30, 0,
                                     in.motion_smoothness, inferred_type)
                r == ProcessInference(sm_current_state, sm_pending_state,
                                      sm_pending_count, inferred_type, confidence)
                e0 == [cs |-> current_states, cc |-> consistency_counters,
                       ps |-> pending_states, lt |-> last_advice_time, out |-> <<>>,
                       lc |-> eng_last_cat, lk |-> eng_last_key, held |-> eng_held]
                e == RunGenerators(e0, r.current, eng_subject_lost_since, in, eng_now)
            IN /\ sm_current_state' = r.current
               /\ sm_pending_state' = r.pending
               /\ sm_pending_count' = r.count
               /\ sm_inferred' = LastN(Append(sm_inferred, inferred_type), consistency_required)
               /\ current_states' = e.cs
               /\ consistency_counters' = e.cc
               /\ pending_states' = e.ps
               /\ last_advice_time' = e.lt
               /\ eng_subject_lost_since' =
                     IF in.subject_lost
                     THEN (IF eng_subject_lost_since = -1 THEN eng_now
                           ELSE eng_subject_lost_since)
                     ELSE -1
               /\ eng_emitted' = e.out
               /\ eng_last_cat' = e.lc
               /\ eng_last_key' = e.lk

GenerateAdvice(in) ==
    /\ eng_cycles < MaxEngineCycles
    /\ eng_cycles' = eng_cycles + 1
    /\ AdviceCycle(in)
    /\ UNCHANGED sfVars

\* generate_advice(..., apply_smoothing): below min_confidence the filter is
\* not reached; with apply_smoothing the filter is updated, and the call
\* returns an empty list while the filter is suppressed
GenerateAdviceSmoothing(in, apply_smoothing) ==
    /\ sf_cycles < MaxSmoothingCycles
    /\ sf_cycles' = sf_cycles + 1
    /\ UNCHANGED eng_cycles
    /\ IF in.confidence < min_confidence \/ ~apply_smoothing
       THEN /\ AdviceCycle(in)
            /\ sf_log' = IF apply_smoothing
                         THEN Append(sf_log, [updated |-> FALSE, anomaly |-> FALSE,
                                              generated |-> FALSE, returned |-> eng_emitted'])
                         ELSE sf_log
            /\ UNCHANGED <<sf_history, sf_kalman_states, sf_anomaly_countdown, sf_initialized>>
       ELSE LET anomaly == sf_initialized /\ DetectAnomaly(sf_history, in)
                countdown == CountdownAfter(sf_anomaly_countdown, anomaly)
                states == [n \in SmoothedIndicators |->
                             KalmanStep(sf_kalman_states[n], Measurement(in, n), sf_initialized)]
            IN /\ sf_anomaly_countdown' = countdown
               /\ sf_history' = LastN(Append(sf_history,
                                      [motion_smoothness |-> in.motion_smoothness,
                                       avg_speed |-> in.avg_speed]), window_size)
               /\ sf_kalman_states' = states
               /\ sf_initialized' = TRUE
               /\ IF IsSuppressed(countdown)
                  THEN /\ eng_emitted' = <<>>
                       /\ eng_held' = TriggersHeld(in)
                       /\ UNCHANGED <<current_states, consistency_counters, pending_states,
                                      last_advice_time, sm_current_state, sm_pending_state,
                                      sm_pending_count, sm_inferred, eng_subject_lost_since,
                                      eng_last_cat, eng_last_key, eng_now>>
                  ELSE AdviceCycle(Smoothed(in, states))
               /\ sf_log' = Append(sf_log, [updated |-> TRUE, anomaly |-> anomaly,
                                            generated |-> ~IsSuppressed(countdown),
                                            returned |-> eng_emitted'])

\* time passes between two calls
EngineTick(d) ==
    /\ eng_now + d <= MaxEngineTime
    /\ eng_now' = eng_now + d
    /\ eng_emitted' = <<>>
    /\ UNCHANGED <<eng_cycles, eng_subject_lost_since, eng_last_cat, eng_last_key, eng_held,
                   sfVars>>

\* an analysis result no generator reacts to: a still camera, the subject in
\* view with no bbox, no beat and no focal length given
QuietInput ==
    [confidence |-> 80, motion_smoothness |-> 700, avg_speed |-> 0, speed_variance |-> 0,
     primary_direction_deg |-> 0, subject_occupancy |-> 300, subject_bbox |-> NoBBox,
     subject_lost |-> FALSE, time_to_beat |-> NoBeat, focal_length_mm |-> NoFocalLength]

OffCentreBBox == [x |-> 0, y |-> 400, w |-> 200, h |-> 200]

\* the results fed to the engine: the quiet one with the indicators of one
\* generator moved to each side of its thresholds
EngineInputs ==
    {[QuietInput EXCEPT !.confidence = 30]}
    \cup {[QuietInput EXCEPT !.confidence = min_confidence - 1, !.motion_smoothness = 300]}
    \cup {[QuietInput EXCEPT !.motion_smoothness = ms, !.focal_length_mm = fl] :
             ms \in {300, 500, 800}, fl \in {NoFocalLength, 85}}
    \cup {[QuietInput EXCEPT !.motion_smoothness = ms] :
             ms \in {StabilityCriticalEnter - 1, StabilityCriticalExit + 1}}
    \cup {[QuietInput EXCEPT !.avg_speed = sp, !.speed_variance = sv] :
             sp \in {10, 25}, sv \in {0, 100}}
    \cup {[QuietInput EXCEPT !.subject_lost = TRUE]}
    \cup {[QuietInput EXCEPT !.subject_bbox = bb, !.subject_occupancy = occ] :
             bb \in {NoBBox, OffCentreBBox}, occ \in {50, 300, 900}}
    \cup {[QuietInput EXCEPT !.avg_speed = 10, !.subject_bbox = OffCentreBBox,
                             !.subject_occupancy = occ] : occ \in {50, 900}}
    \cup {[QuietInput EXCEPT !.time_to_beat = tb] : tb \in {50, 300}}
    \cup {[QuietInput EXCEPT !.avg_speed = 10, !.primary_direction_deg = dir,
                             !.subject_bbox = OffCentreBBox, !.subject_occupancy = 900] :
             dir \in {45, 90}}

GenerateAdviceStep == \E in \in EngineInputs : GenerateAdvice(in)

\* the results fed to an engine whose smoothing filter is on: a still camera,
\* a jolt (shaky and fast), and a result of low confidence
SmoothingInputs ==
    {QuietInput,
     [QuietInput EXCEPT !.motion_smoothness = 300, !.avg_speed = 25],
     [QuietInput EXCEPT !.confidence = 30]}

\* results that differ in motion_smoothness only: both sides of the warning
\* band (0.65 .. 0.75) and of the warning threshold (0.70)
StabilityInputs ==
    {[QuietInput EXCEPT !.motion_smoothness = ms] : ms \in {600, 700, 720, 760}}

GenerateStabilityStep == \E in \in StabilityInputs : GenerateAdvice(in)

GenerateAdviceSmoothingStep ==
    \E in \in SmoothingInputs, apply_smoothing \in BOOLEAN :
        GenerateAdviceSmoothing(in, apply_smoothing)

EngineTickStep == \E d \in {category_cooldown_s - 1, category_cooldown_s} : EngineTick(d)

(***************************************************************************)
(* Orchestrator (orchestrator.py): run_pipeline and retry_with_backoff.    *)
(* Several invocations of run_pipeline run as tasks on one orchestrator;   *)
(* a task gives up the event loop while it awaits a stage or a backoff     *)
(* sleep.  Validation and auto-completion of the metadata do not raise and  *)
(* are left out; the confidence action is a local of run_pipeline that is  *)
(* logged.  A progress callback is set and records what it is given.       *)
(***************************************************************************)
Stages == <<"upload", "feature_extraction", "heuristic_analysis", "metadata_synthesis", "instruction_generation">>

\* PipelineConfig: attempts, seconds, seconds
max_retries == 3
base_delay == 1
max_delay == 30

\* PipelineConfig(), the configuration of an orchestrator built without one
DefaultConfig == [max_retries |-> max_retries]

\* run_pipeline's config argument is None
NoConfig == [max_retries |-> -1]

\* what a stage does when it is invoked in one pipeline run: the stage
\* `stage` (0: none) raises RetryableError on its first `retryable` attempts
\* and on the next attempt returns ("ok") or raises another exception
\* ("fatal"); the other stages return
StageOutcome(script, stage, attempt) ==
    IF stage # script.stage THEN "ok"
    ELSE IF attempt < script.retryable THEN "retryable"
    ELSE script.then

\* PipelineConfig: the confidence thresholds, in hundredths
high_confidence_threshold == 75
medium_confidence_threshold == 55

\* the confidence of the metadata the synthesis stage returns, in hundredths
Confidences == {40, 55, 60, 75, 80}

Scripts ==
    [stage : {0}, retryable : {0}, then : {"ok"}, confidence : Confidences]
    \cup [stage : 1..Len(Stages), retryable : 0..MaxFailures, then : {"ok", "fatal"}, confidence : {80}]

\* Orchestrator.handle_confidence
HandleConfidence(confidence) ==
    IF confidence > high_confidence_threshold THEN "proceed"
    ELSE IF confidence >= medium_confidence_threshold THEN "warn"
    ELSE "manual"

VARIABLES
    orch_config,   \* Orchestrator.config
    pl             \* the invocations of run_pipeline: arguments, position,
                   \* locals of retry_with_backoff, the PipelineResult, and
                   \* for the observer the stage calls and the backoff sleeps

pipelineVars == <<orch_config, pl>>

Pipelines == {"p1", "p2"}

IdlePipeline ==
    [pc |-> "idle", script |-> [stage |-> 0, retryable |-> 0, then |-> "ok", confidence |-> 80],
     config |-> NoConfig, stage |-> 0, attempt |-> 0, retries |-> 0,
     outputs |-> {}, error |-> None, cancelled |-> FALSE, calls |-> <<>>,
     sleeps |-> <<>>, confidence_action |-> "None", progress |-> <<>>]

PipelineInit ==
    /\ orch_config = DefaultConfig
    /\ pl = [i \in Pipelines |-> IdlePipeline]

\* _calculate_delay
CalculateDelay(attempt) ==
    LET delay == base_delay * (2 ^ attempt)
    IN IF delay < max_delay THEN delay ELSE max_delay

\* the progress_pct run_pipeline reports before and after stage k
StartPct == <<0, 20, 50, 70, 85>>
EndPct == <<20, 50, 70, 85, 100>>
FailedPct == 0

ReportProgressOncePerPct(p, stage, pct) ==
    IF Len(p.progress) > 0 /\ p.progress[Len(p.progress)].pct = pct THEN p
    ELSE [p EXCEPT !.progress = Append(@, [stage |-> stage, pct |-> pct])]

\* _report_progress: the callback gets the stage and the progress_pct
ReportProgress(p, stage, pct) ==
    [p EXCEPT !.progress = Append(@, [stage |-> stage, pct |-> pct])]

\* run_pipeline's except Exception: the error is put into the result, which
\* keeps the outputs assigned so far, FAILED is reported with progress_pct 0.0
\* and the result is returned
FailDroppingOutputs(p, e) ==
    ReportProgress([p EXCEPT !.pc = "returned", !.error = e, !.outputs = {}], "failed", FailedPct)

Fail(p, e) == ReportProgress([p EXCEPT !.pc = "returned", !.error = e], "failed", FailedPct)

\* retry_with_backoff is entered for stage k: retries is read from the
\* configuration of the orchestrator, and the first attempt is made unless
\* range(retries) is empty
EnterStage(p, k, config) ==
    IF config.max_retries = 0
    THEN Fail([p EXCEPT !.stage = k, !.attempt = 0, !.retries = 0], "All retries failed")
    ELSE [p EXCEPT !.pc = "running", !.stage = k, !.attempt = 0,
                   !.retries = config.max_retries, !.calls = Append(@, Stages[k])]

\* the statement after a stage of run_pipeline
NextStageSkipsOne(k) == IF k + 2 <= Len(Stages) THEN k + 2 ELSE k + 1

NextStage(k) == k + 1

\* except RetryableError
IsRetryableAnyError(outcome) == outcome # "ok"

IsRetryable(outcome) == outcome = "retryable"

\* for attempt in range(retries): is there an attempt after this one
MoreAttemptsInclusive(attempt, retries) == attempt + 1 <= retries

MoreAttempts(attempt, retries) == attempt + 1 < retries

\* run_pipeline(video_path, video_id, config) up to the await of the first
\* attempt of the upload stage
RunPipeline(i, script, config) ==
    /\ pl[i].pc = "idle"
    /\ orch_config' = IF config # NoConfig THEN config ELSE orch_config
    /\ pl' = [pl EXCEPT ![i] =
                EnterStage(ReportProgress([@ EXCEPT !.script = script, !.config = config],
                                          Stages[1], StartPct[1]),
                           1, orch_config')]

\* the awaited stage returns or raises
StageCompletes(i) ==
    LET p == pl[i]
        outcome == StageOutcome(p.script, p.stage, p.attempt)
        done == [p EXCEPT !.outputs = @ \cup {Stages[p.stage]}]
        next == NextStage(p.stage)
    IN /\ p.pc = "running"
       /\ pl' = [pl EXCEPT ![i] =
                   IF outcome = "ok"
                   THEN IF p.stage = Len(Stages)
                        THEN ReportProgress(
                                [done EXCEPT !.pc = "returned",
                                             !.confidence_action =
                                                HandleConfidence(p.script.confidence)],
                                "completed", EndPct[p.stage])
                        ELSE EnterStage(
                                ReportProgress(
                                   ReportProgress(done, Stages[p.stage], EndPct[p.stage]),
                                   Stages[next], StartPct[next]),
                                next, orch_config)
                   ELSE IF IsRetryable(outcome)
                   THEN [p EXCEPT !.pc = "sleeping",
                                  !.sleeps = Append(@, CalculateDelay(p.attempt))]
                   ELSE Fail(p, "Exception")]
       /\ UNCHANGED orch_config

\* the backoff sleep is over: the next attempt, or raise last_error
SleepOver(i) ==
    LET p == pl[i]
    IN /\ p.pc = "sleeping"
       /\ pl' = [pl EXCEPT ![i] =
                   IF MoreAttempts(p.attempt, p.retries)
                   THEN [p EXCEPT !.pc = "running", !.attempt = @ + 1,
                                  !.calls = Append(@, Stages[p.stage])]
                   ELSE Fail(p, "RetryableError")]
       /\ UNCHANGED orch_config

\* the task of the invocation is cancelled while it awaits a stage or a
\* sleep: CancelledError, which is no Exception, leaves retry_with_backoff
\* and run_pipeline
CancelPipeline(i) ==
    /\ pl[i].pc \in {"running", "sleeping"}
    /\ pl' = [pl EXCEPT ![i] = [@ EXCEPT !.pc = "raised", !.cancelled = TRUE]]
    /\ UNCHANGED orch_config

\* the PipelineResult of a returned invocation
ResultOf(p) == [outputs |-> p.outputs, error |-> p.error]

\* the PipelineResult run_pipeline returns when no other invocation runs on
\* the orchestrator: the stages before the failing one have their outputs
AloneResult(script, config) ==
    LET retries == config.max_retries
        before(k) == {Stages[j] : j \in 1..(k - 1)}
        all == {Stages[j] : j \in 1..Len(Stages)}
    IN IF retries = 0 THEN [outputs |-> {}, error |-> "All retries failed"]
       ELSE IF script.stage = 0 THEN [outputs |-> all, error |-> None]
       ELSE IF script.retryable >= retries
       THEN [outputs |-> before(script.stage), error |-> "RetryableError"]
       ELSE IF script.then = "fatal"
       THEN [outputs |-> before(script.stage), error |-> "Exception"]
       ELSE [outputs |-> all, error |-> None]

\* the configurations an invocation is given: none, or one with max_retries
PipelineConfigs == {NoConfig} \cup [max_retries : 0..max_retries]

\* one invocation, every script
PipelineStep ==
    \/ \E script \in Scripts : \E config \in PipelineConfigs : RunPipeline("p1", script, config)
    \/ StageCompletes("p1")
    \/ SleepOver("p1")
    \/ CancelPipeline("p1")

\* two invocations with their own configurations; at most the second stage
\* fails
ConcurrentScripts == {sc \in Scripts : sc.stage \in {0, 2} /\ sc.retryable \in {0, 2} /\ sc.confidence = 80}

ConcurrentConfigs == {[max_retries |-> 1], [max_retries |-> max_retries]}

ConcurrentPipelineStep(i) ==
    \/ \E script \in ConcurrentScripts : \E config \in ConcurrentConfigs :
          RunPipeline(i, script, config)
    \/ StageCompletes(i)
    \/ SleepOver(i)

(***************************************************************************)
(* External-model client (services/llm_client.py): OpenAIClient.complete   *)
(* turns what the HTTP request did into a return value or an exception,    *)
(* and BaseLLMClient.complete_with_retry repeats the call.                 *)
(***************************************************************************)
\* LLMConfig.max_retries
LLMConfig_max_retries == 3

\* LLMConfig.base_delay and LLMConfig.max_delay, in seconds
LLMConfig_base_delay == 1

LLMConfig_max_delay == 30

\* what one HTTP request can do: a status code, a timeout
\* (httpx.TimeoutException) or another transport error (httpx.RequestError)
HttpResponses == {"200", "429", "401", "500", "503", "timeout", "network"}

\* the 4xx/5xx answers other than 429
OtherStatus == {"401", "500", "503"}

VARIABLES llm

llmVars == <<llm>>

IdleLLM == [pc |-> "idle", api_key |-> TRUE, max_retries |-> LLMConfig_max_retries, attempt |-> 0, calls |-> <<>>, sleeps |-> <<>>, last_error |-> "None", error |-> "None"]

LlmInit == llm = IdleLLM

\* OpenAIClient.complete: the outcome of one call
Complete(api_key, response) ==
    IF ~api_key THEN "LLMError"
    ELSE CASE response = "200" -> "ok"
           [] response = "429" -> "LLMRateLimitError"
           [] response = "timeout" -> "LLMTimeoutError"
           [] response = "network" -> "LLMError"
           [] OTHER -> "LLMError"

\* the except clauses of complete_with_retry that sleep and go round again
LlmRetried(outcome) == outcome \in {"LLMRateLimitError", "LLMTimeoutError"}

\* BaseLLMClient._calculate_delay
LlmCalculateDelay(attempt) ==
    IF LLMConfig_base_delay * (2 ^ attempt) < LLMConfig_max_delay
    THEN LLMConfig_base_delay * (2 ^ attempt) ELSE LLMConfig_max_delay

\* the for loop of complete_with_retry is entered, or is over at once
LlmEnterAttempt(l, k) ==
    IF k < l.max_retries
    THEN [l EXCEPT !.pc = "calling", !.attempt = k]
    ELSE [l EXCEPT !.pc = "raised", !.attempt = k, !.error = "All retries failed"]

\* complete_with_retry is called on a client with or without an API key,
\* whose configuration allows max_retries attempts
CompleteWithRetry(api_key, retries) ==
    /\ llm.pc = "idle"
    /\ llm' = LlmEnterAttempt([IdleLLM EXCEPT !.api_key = api_key, !.max_retries = retries], 0)

\* one await self.complete(...) of the loop finishes; without an API key no
\* request is sent
LlmCallCompletes(response) ==
    /\ llm.pc = "calling"
    /\ LET outcome == Complete(llm.api_key, response)
           called == IF llm.api_key THEN [llm EXCEPT !.calls = Append(@, response)] ELSE llm
       IN  llm' = IF outcome = "ok" THEN [called EXCEPT !.pc = "returned"]
                  ELSE IF LlmRetried(outcome)
                  THEN [called EXCEPT !.pc = "sleeping", !.last_error = outcome,
                                      !.sleeps = Append(@, LlmCalculateDelay(llm.attempt))]
                  ELSE [called EXCEPT !.pc = "raised", !.error = outcome]

\* the backoff sleep is over
LlmSleepOver ==
    /\ llm.pc = "sleeping"
    /\ llm' = LlmEnterAttempt(llm, llm.attempt + 1)

\* the caller has its answer; the client is ready for the next request
LlmDone ==
    /\ llm.pc \in {"returned", "raised"}
    /\ llm' = IdleLLM

LlmStep ==
    \/ \E api_key \in BOOLEAN : \E retries \in 0..LLMConfig_max_retries :
          CompleteWithRetry(api_key, retries)
    \/ \E response \in HttpResponses : LlmCallCompletes(response)
    \/ LlmSleepOver
    \/ LlmDone

(***************************************************************************)
(* Metadata synthesizer (agents/metadata_synthesizer.py).  Scores are in   *)
(* thousandths: 1000 stands for 1.0.  process() takes the rule baseline,   *)
(* asks the model through LLMClient.complete (complete_with_retry of the   *)
(* client above), merges and validates.                                    *)
(***************************************************************************)
\* what _infer_from_rules returns for the heuristics of a segment
RuleResults == [motion_type : {"static", "pan"}, speed_profile : {"linear"}, suggested_scale : {"medium"}, confidence : {400, 800}]

\* HeuristicOutput, with the rule baseline inferred from it
HeuristicOutputs == [rule : RuleResults, motion_smoothness : {300, 900}, frame_pct_change : {0, 200, 1200}, beat_alignment_score : {800}]

\* the normalized reply when no field could be taken from it (an empty
\* dict); a reply of None is merged in the same way (if llm_result:)
NoLLMResult == [motion_type |-> "absent", speed_profile |-> "absent", suggested_scale |-> "absent", confidence |-> -1, explainability |-> "absent"]

\* what _normalize_llm_result makes of the text the model returned
NormalizedReplies ==
    { NoLLMResult,
      [NoLLMResult EXCEPT !.confidence = 600],
      [NoLLMResult EXCEPT !.motion_type = "dolly_in", !.confidence = 900, !.explainability = "llm"] }

\* the text of the model: not JSON (parse_llm_response raises ValueError,
\* process sees LLMResponseError), or JSON that normalizes to a reply
ModelTexts == {[json |-> FALSE, result |-> NoLLMResult]} \cup [json : {TRUE}, result : NormalizedReplies]

\* MetadataSynthesizerConfig
SynthConfigs == [use_llm : BOOLEAN, fallback_to_rules : BOOLEAN, validate_output : BOOLEAN, auto_fix_invalid : BOOLEAN]

DefaultSynthConfig == [use_llm |-> TRUE, fallback_to_rules |-> TRUE, validate_output |-> TRUE, auto_fix_invalid |-> TRUE]

NoMetadata == [motion_type |-> "None"]

VARIABLES synth

synthVars == <<synth>>

IdleSynth == [pc |-> "idle", config |-> DefaultSynthConfig, heuristic |-> CHOOSE h \in HeuristicOutputs : TRUE, llm_error |-> "None", llm_calls |-> 0, replies |-> 0, metadata |-> NoMetadata, error |-> "None"]

SynthInit == synth = IdleSynth

Clamp01(x) == IF x < 0 THEN 0 ELSE IF x > 1000 THEN 1000 ELSE x

\* MetadataSynthesizerAgent._calculate_final_confidence
CalculateFinalConfidence(rule_confidence, llm_confidence, h) ==
    LET base == IF llm_confidence # -1 THEN (4 * rule_confidence + 6 * llm_confidence) \div 10
                ELSE rule_confidence
        smooth == base + (h.motion_smoothness - 500) \div 10
        edge == IF h.frame_pct_change < 10 \/ h.frame_pct_change > 950 THEN smooth - 50 ELSE smooth
        beat == IF h.beat_alignment_score > 700 THEN edge + 50 ELSE edge
    IN  Clamp01(beat)

\* MetadataSynthesizerAgent._generate_explainability: the text of the model
\* if there is one, else the default text for the motion type
GenerateExplainability(motion_type, llm_explainability) ==
    IF llm_explainability # "absent" THEN <<"llm", llm_explainability>> ELSE <<"default", motion_type>>

\* MetadataSynthesizerAgent._merge_results
MergeResults(h, rule_based, llm_result) ==
    LET given == llm_result # NoLLMResult
        motion_type == IF given /\ llm_result.motion_type # "absent" THEN llm_result.motion_type ELSE rule_based.motion_type
        speed_profile == IF given /\ llm_result.speed_profile # "absent" THEN llm_result.speed_profile ELSE rule_based.speed_profile
        suggested_scale == IF given /\ llm_result.suggested_scale # "absent" THEN llm_result.suggested_scale ELSE rule_based.suggested_scale
        llm_confidence == IF given THEN llm_result.confidence ELSE -1
        llm_explainability == IF given THEN llm_result.explainability ELSE "absent"
    IN  [motion_type |-> motion_type,
         speed_profile |-> speed_profile,
         suggested_scale |-> suggested_scale,
         frame_pct_change |-> h.frame_pct_change,
         motion_smoothness |-> h.motion_smoothness,
         beat_alignment_score |-> h.beat_alignment_score,
         confidence |-> CalculateFinalConfidence(rule_based.confidence, llm_confidence, h),
         explainability |-> GenerateExplainability(motion_type, llm_explainability)]

\* MetadataSynthesizerAgent._auto_fix_metadata
AutoFixMetadata(m) ==
    [m EXCEPT !.confidence = Clamp01(@), !.beat_alignment_score = Clamp01(@),
              !.frame_pct_change = Clamp01(@), !.motion_smoothness = Clamp01(@)]

\* SchemaValidator.validate_metadata: the numeric ranges of the metadata
\* schema
ValidateMetadata(m) ==
    \A x \in {m.confidence, m.beat_alignment_score, m.frame_pct_change, m.motion_smoothness} : x \in 0..1000

Returned(m) == [pc |-> "returned", metadata |-> m, error |-> "None"]

Raised(exc) == [pc |-> "raised", metadata |-> NoMetadata, error |-> exc]

ValidateAndFixKeepsUnrepaired(m, config) ==
    IF ValidateMetadata(m) \/ config.auto_fix_invalid THEN Returned(m)
    ELSE Raised("SchemaValidationError")

\* MetadataSynthesizerAgent._validate_and_fix: the metadata it returns, or
\* the SchemaValidationError it raises
ValidateAndFix(m, config) ==
    IF ValidateMetadata(m) THEN Returned(m)
    ELSE IF ~config.auto_fix_invalid THEN Raised("SchemaValidationError")
    ELSE IF ValidateMetadata(AutoFixMetadata(m)) THEN Returned(AutoFixMetadata(m))
    ELSE Raised("SchemaValidationError")

FallsBackOnBadReplyOnly(config, exc) == config.fallback_to_rules /\ exc = "LLMResponseError"

\* the except clause of process: an LLMError of the enhancement is
\* swallowed when fallback_to_rules is set, else raised again
FallsBack(config, exc) == config.fallback_to_rules

\* steps 3 and 4 of process: what it returns or raises
MergeAndValidate(h, config, llm_result) ==
    IF config.validate_output THEN ValidateAndFix(MergeResults(h, h.rule, llm_result), config)
    ELSE Returned(MergeResults(h, h.rule, llm_result))

SynthFinish(sy, llm_result) ==
    LET out == MergeAndValidate(sy.heuristic, sy.config, llm_result)
    IN  [sy EXCEPT !.pc = out.pc, !.metadata = out.metadata, !.error = out.error]

\* the enhancement raised exc, an LLMError
SynthEnhanceFailed(sy, exc) ==
    IF FallsBack(sy.config, exc) THEN SynthFinish(sy, NoLLMResult)
    ELSE [sy EXCEPT !.pc = "raised", !.error = exc]

\* process() is called: without use_llm it runs to its end, else it awaits
\* the client's complete_with_retry
SynthProcess(h, config, api_key, retries) ==
    /\ synth.pc = "idle"
    /\ llm.pc = "idle"
    /\ LET sy == [IdleSynth EXCEPT !.config = config, !.heuristic = h]
       IN  IF config.use_llm
           THEN /\ synth' = [sy EXCEPT !.pc = "enhancing"]
                /\ CompleteWithRetry(api_key, retries)
           ELSE /\ synth' = SynthFinish(sy, NoLLMResult)
                /\ UNCHANGED llm

\* complete_with_retry returned the text of the model
SynthModelReturned(text) ==
    /\ synth.pc = "enhancing"
    /\ llm.pc = "returned"
    /\ LET sy == [synth EXCEPT !.llm_calls = Len(llm.calls), !.replies = @ + 1]
       IN  synth' = IF text.json THEN SynthFinish(sy, text.result)
                    ELSE SynthEnhanceFailed([sy EXCEPT !.llm_error = "LLMResponseError"], "LLMResponseError")
    /\ LlmDone

\* complete_with_retry raised
SynthModelRaised ==
    /\ synth.pc = "enhancing"
    /\ llm.pc = "raised"
    /\ synth' = SynthEnhanceFailed([synth EXCEPT !.llm_error = llm.error, !.llm_calls = Len(llm.calls)], "LLMError")
    /\ LlmDone

\* the caller has the metadata or the exception
SynthDone ==
    /\ synth.pc \in {"returned", "raised"}
    /\ synth' = IdleSynth
    /\ UNCHANGED llm

SynthStep ==
    \/ \E h \in HeuristicOutputs : \E config \in SynthConfigs : \E api_key \in BOOLEAN :
          \E retries \in 0..LLMConfig_max_retries : SynthProcess(h, config, api_key, retries)
    \/ \E response \in HttpResponses : LlmCallCompletes(response) /\ UNCHANGED synth
    \/ LlmSleepOver /\ UNCHANGED synth
    \/ \E text \in ModelTexts : SynthModelReturned(text)
    \/ SynthModelRaised
    \/ SynthDone

(***************************************************************************)
(* RealtimeAnalyzer (analyzer.py): adaptive degradation of the optical     *)
(* flow and subject tracking.  A frame is the answer detect_subject would  *)
(* give on it (TRUE: a bbox); latencies are whole milliseconds.            *)
(***************************************************************************)
latency_threshold_ms == 500
subject_lost_threshold_frames == 3
LatencyHistoryLen == 5
MinBufferFrames == 5

\* the latencies a flow computation may take
Latencies == {100, 400, 600}

\* the buffers of analyze_buffer: too short to analyse, the subject in every
\* frame, in no frame, in all but the last, in the last only
FrameBuffers ==
    {<<FALSE, FALSE>>,
     <<TRUE, TRUE, TRUE, TRUE, TRUE>>,
     <<FALSE, FALSE, FALSE, FALSE, FALSE>>,
     <<TRUE, TRUE, TRUE, TRUE, FALSE>>,
     <<FALSE, FALSE, FALSE, FALSE, TRUE>>}

VARIABLES
    an_latency_history,        \* RealtimeAnalyzer._latency_history
    an_degraded_mode,          \* RealtimeAnalyzer._degraded_mode
    an_frames_without_subject, \* RealtimeAnalyzer._frames_without_subject
    an_subject_lost,           \* RealtimeAnalyzer._subject_lost
    an_algorithm,              \* observer: the flow algorithm of the latest call
    an_missing_run             \* history: the frames without a subject at the end
                               \* of the frames passed so far (up to the threshold)

anVars == <<an_latency_history, an_degraded_mode, an_frames_without_subject,
            an_subject_lost, an_algorithm, an_missing_run>>

AnalyzerInit ==
    /\ an_latency_history = <<>>
    /\ an_degraded_mode = FALSE
    /\ an_frames_without_subject = 0
    /\ an_subject_lost = FALSE
    /\ an_algorithm = "none"
    /\ an_missing_run = 0

CheckDegradationFromOneSample(history, degraded) ==
    IF SeqSum(history) > latency_threshold_ms * Len(history) THEN TRUE
    ELSE IF 2 * SeqSum(history) < latency_threshold_ms * Len(history) THEN FALSE
    ELSE degraded

\* _check_degradation: _degraded_mode afterwards
CheckDegradation(history, degraded) ==
    IF Len(history) < 2 THEN degraded
    ELSE IF SeqSum(history) > latency_threshold_ms * Len(history) THEN TRUE
    ELSE IF 2 * SeqSum(history) < latency_threshold_ms * Len(history) THEN FALSE
    ELSE degraded

\* compute_optical_flow_fast: the algorithm it runs (use_sparse_flow is False)
FlowAlgorithm(degraded) == IF degraded THEN "lucas_kanade" ELSE "farneback"

\* update_subject_tracking looks for the subject in the last frame only
DetectedInBuffer(frames) == frames[Len(frames)]

\* the frames without a subject at the end of the frames seen so far
MissingRunAfter(run, frames) ==
    LET trailing == CHOOSE k \in 0..Len(frames) :
                       /\ \A i \in (Len(frames) - k + 1)..Len(frames) : ~frames[i]
                       /\ (k < Len(frames) => frames[Len(frames) - k])
        total == IF trailing = Len(frames) THEN run + trailing ELSE trailing
    IN Min(total, subject_lost_threshold_frames)

\* analyze_buffer(frames): fewer than 5 frames return a result of confidence 0
\* at once; else compute_optical_flow_fast, which takes latency_ms, and
\* update_subject_tracking
AnalyzeBuffer(frames, latency_ms) ==
    /\ an_missing_run' = MissingRunAfter(an_missing_run, frames)
    /\ IF Len(frames) < MinBufferFrames
       THEN UNCHANGED <<an_latency_history, an_degraded_mode, an_frames_without_subject,
                        an_subject_lost, an_algorithm>>
       ELSE LET history == LastN(Append(an_latency_history, latency_ms), LatencyHistoryLen)
            IN /\ an_algorithm' = FlowAlgorithm(an_degraded_mode)
               /\ an_latency_history' = history
               /\ an_degraded_mode' = CheckDegradation(history, an_degraded_mode)
               /\ IF DetectedInBuffer(frames)
                  THEN /\ an_frames_without_subject' = 0
                       /\ an_subject_lost' = FALSE
                  ELSE /\ an_frames_without_subject < MaxMissedCycles
                       /\ an_frames_without_subject' = an_frames_without_subject + 1
                       /\ an_subject_lost' =
                             (\/ an_subject_lost
                              \/ an_frames_without_subject + 1 >= subject_lost_threshold_frames)

AnalyzeBufferStep ==
    \E frames \in FrameBuffers, latency_ms \in Latencies : AnalyzeBuffer(frames, latency_ms)

(***************************************************************************)
(* TaskManager (task_manager.py): the state machine of one shooting task.  *)
(* Times are whole seconds; smoothness and progress are in thousandths.    *)
(* The environment scanner returns an analysis that suggests the task      *)
(* anchor_hold, as the fallback analysis of a failed scan does.            *)
(***************************************************************************)
\* TaskManagerConfig
recovery_max_attempts == 3
feedback_interval_s == 1

\* the predefined task anchor_hold of the environment scanner
AnchorHold == [task_id |-> "anchor_hold", target_duration_s |-> 3,
               target_motion |-> "static", min_speed |-> 0, max_speed |-> 2]

\* indicators given to update_progress: a steady hold, shake, too fast a move,
\* an unsteady speed
Qualities ==
    {[motion_smoothness |-> 800, avg_speed |-> 1, speed_variance |-> 0],
     [motion_smoothness |-> 300, avg_speed |-> 1, speed_variance |-> 0],
     [motion_smoothness |-> 800, avg_speed |-> 5, speed_variance |-> 0],
     [motion_smoothness |-> 800, avg_speed |-> 1, speed_variance |-> 20]}

VARIABLES
    tm_now,        \* time.time(), also passed as current_time
    tm_analysis,   \* TaskManager._environment_analysis is set
    tm_context,    \* TaskManager._current_context (NoContext: None)
    tm_feedback    \* the "type" of the latest update_progress feedback

tmVars == <<tm_now, tm_analysis, tm_context, tm_feedback>>

NoContext == [current_state |-> "None"]

TaskManagerInit ==
    /\ tm_now = 0
    /\ tm_analysis = FALSE
    /\ tm_context = NoContext
    /\ tm_feedback = "none"

\* start_environment_scan: the context is dropped; the analysis is the
\* scanner's or, when the scan times out or raises, the fallback one
StartEnvironmentScan ==
    /\ tm_context' = NoContext
    /\ tm_analysis' = TRUE
    /\ tm_feedback' = "none"
    /\ UNCHANGED tm_now

\* pick_task: a new TaskExecutionContext for the selected task
PickTask ==
    /\ tm_analysis
    /\ tm_context' = [task |-> AnchorHold, start_time |-> tm_now,
                      current_state |-> "task_picked", progress |-> 0,
                      last_feedback_time |-> 0, error_count |-> 0]
    /\ tm_feedback' = "none"
    /\ UNCHANGED <<tm_now, tm_analysis>>

\* start_task_execution: refused without a context or in another state than
\* TASK_PICKED
StartTaskExecution ==
    /\ tm_context # NoContext
    /\ tm_context.current_state = "task_picked"
    /\ tm_context' = [tm_context EXCEPT !.current_state = "executing", !.start_time = tm_now]
    /\ tm_feedback' = "none"
    /\ UNCHANGED <<tm_now, tm_analysis>>

\* _check_execution_quality: needs_recovery.  The direction is looked at for
\* truck tasks only.
NeedsRecovery(task, q) ==
    \/ q.motion_smoothness < 400
    \/ 2 * q.avg_speed < task.min_speed
    \/ 2 * q.avg_speed > 3 * task.max_speed
    \/ q.speed_variance > 10

\* _enter_recovery, with _fail_task
EnterRecovery(context) ==
    IF context.current_state = "recovery"
    THEN IF context.error_count + 1 >= recovery_max_attempts
         THEN [context EXCEPT !.error_count = @ + 1, !.current_state = "failed"]
         ELSE [context EXCEPT !.error_count = @ + 1]
    ELSE [context EXCEPT !.current_state = "recovery", !.error_count = 1]

\* _complete_task
CompleteTask(context) == [context EXCEPT !.current_state = "done", !.progress = 1000]

\* update_progress(current_time, indicators) with a context
UpdateProgress(q) ==
    LET context == tm_context
        elapsed == tm_now - context.start_time
        progress == Min((elapsed * 1000) \div context.task.target_duration_s, 1000)
        measured == [context EXCEPT !.progress = progress]
    IN /\ tm_context # NoContext
       /\ IF progress >= 1000
          THEN /\ tm_context' = CompleteTask(measured)
               /\ tm_feedback' = "completed"
          ELSE IF NeedsRecovery(context.task, q)
          THEN /\ tm_context' = EnterRecovery(measured)
               /\ tm_feedback' = "recovery"
          ELSE IF tm_now - context.last_feedback_time > feedback_interval_s
          THEN /\ tm_context' = [measured EXCEPT !.last_feedback_time = tm_now]
               /\ tm_feedback' = "progress"
          ELSE /\ tm_context' = measured
               /\ tm_feedback' = "executing"
       /\ UNCHANGED <<tm_now, tm_analysis>>

\* update_progress without a context
UpdateProgressIdle ==
    /\ tm_context = NoContext
    /\ tm_feedback' = "idle"
    /\ UNCHANGED <<tm_now, tm_analysis, tm_context>>

\* reset
TaskManagerReset ==
    /\ tm_context' = NoContext
    /\ tm_analysis' = FALSE
    /\ tm_feedback' = "none"
    /\ UNCHANGED tm_now

\* a second passes
TaskTick ==
    /\ tm_now < MaxTaskTime
    /\ tm_now' = tm_now + 1
    /\ UNCHANGED <<tm_analysis, tm_context, tm_feedback>>

TaskStep ==
    \/ StartEnvironmentScan
    \/ PickTask
    \/ StartTaskExecution
    \/ \E q \in Qualities : UpdateProgress(q)
    \/ UpdateProgressIdle
    \/ TaskManagerReset
    \/ TaskTick

\* the analyzer and the task manager a session owns
perSessionVars == <<anVars, tmVars>>

\* the variables of the batch services
batchVars == <<pipelineVars, llmVars, synthVars>>

\* the variables of the realtime components
realtimeVars == <<hystVars, hystRunVars, smVars, sm_inferred, wsVars, reapVars, psmVars, engVars,
                 perSessionVars>>

(***************************************************************************)
(* Specifications.  Each component is run on its own; the variables of the *)
(* other components keep their initial values.                             *)
(***************************************************************************)
vars == <<realtimeVars, batchVars>>

PerSessionInit == AnalyzerInit /\ TaskManagerInit

HystRunIdle == hyst_key = "stability" /\ hyst_cycles = 0 /\ hyst_run = NoRun
MotionStart == MotionInit /\ sm_inferred = <<>>

\* direct calls of the hysteresis controller on one category
InitHyst ==
    /\ HysteresisInit
    /\ hyst_key \in HystTestKeys
    /\ hyst_cycles = 0
    /\ hyst_run = NoRun
    /\ MotionStart /\ WsInit /\ ReapInit /\ PsmInit /\ EngineInit /\ PipelineInit /\ LlmInit /\ SynthInit
    /\ PerSessionInit

NextHyst == HystCheckStep /\ UNCHANGED <<smVars, sm_inferred, wsVars, reapVars, psmVars, engVars, perSessionVars, batchVars>>

SpecHyst == InitHyst /\ [][NextHyst]_vars

\* the motion state machine driven by update()
InitMotion ==
    /\ HysteresisInit /\ HystRunIdle /\ MotionStart /\ WsInit /\ ReapInit /\ PsmInit
    /\ EngineInit /\ PipelineInit /\ LlmInit /\ SynthInit /\ PerSessionInit

NextMotion ==
    MotionUpdateStep /\ UNCHANGED <<hystVars, hystRunVars, wsVars, reapVars, psmVars, engVars, perSessionVars, batchVars>>

SpecMotion == InitMotion /\ [][NextMotion]_vars

\* the handler tasks of the clients of one session
WsStep(c) ==
    \/ WsConnect(c)
    \/ WsSocketClose(c)
    \/ WsHandlerExit(c)
    \/ WsReceiveFrames(c)
    \/ WsReceiveUnusable(c)
    \/ WsRejectSent(c)
    \/ WsAnalyze(c)
    \/ \E n \in 0..MaxAdvicePerCycle : WsGenerateAdvice(c, n)
    \/ WsAckSent(c)
    \/ \E failed \in SUBSET WsClients : WsBroadcastOne(c, failed)
    \/ WsTelemetrySent(c)

NextWS ==
    /\ \E c \in WsClients : WsStep(c)
    /\ UNCHANGED <<hystVars, hystRunVars, smVars, sm_inferred, reapVars, psmVars, engVars, perSessionVars, batchVars>>

SpecWS == InitMotion /\ [][NextWS]_vars

\* the life of one session: connections come and go, the REST routes create
\* and delete, sleeping handlers wake
NextReap ==
    /\ \/ RestCreateSession
       \/ RestDeleteSession
       \/ \E c \in WsClients : ReapConnect(c)
       \/ \E c \in WsClients : WsSocketClose(c) /\ UNCHANGED reapVars
       \/ \E c \in WsClients : ReapHandlerExit(c)
       \/ ReapWake
       \/ ReapTick
    /\ UNCHANGED <<hystVars, hystRunVars, smVars, sm_inferred, psmVars, engVars, perSessionVars, batchVars>>

SpecReap == InitMotion /\ [][NextReap]_vars

\* the event loop runs the clock and wakes a handler when its sleep ends
SpecReapFair ==
    /\ SpecReap
    /\ WF_vars(ReapTick /\ UNCHANGED <<hystVars, hystRunVars, smVars, sm_inferred, psmVars, engVars, perSessionVars, batchVars>>)
    /\ WF_vars(ReapWake /\ UNCHANGED <<hystVars, hystRunVars, smVars, sm_inferred, psmVars, engVars, perSessionVars, batchVars>>)

\* the handler tasks of the clients of one session when the handling of a
\* message can raise
WsErrStep(c) ==
    \/ ReapConnect(c)
    \/ WsSocketClose(c) /\ UNCHANGED reapVars
    \/ ReapHandlerExit(c)
    \/ WsReceiveFrames(c) /\ UNCHANGED reapVars
    \/ WsAnalyze(c) /\ UNCHANGED reapVars
    \/ \E exc \in MessageExceptions :
          WsHandlingError(c, exc) /\ UNCHANGED <<ws_session, ws_now, ws_reapers, ws_last_detached>>
    \/ \E delivered \in BOOLEAN :
          WsErrorSent(c, delivered) /\ UNCHANGED <<ws_session, ws_now, ws_reapers, ws_last_detached>>
    \/ \E n \in 0..1 : WsGenerateAdvice(c, n) /\ UNCHANGED reapVars
    \/ WsAckSent(c) /\ UNCHANGED reapVars
    \/ WsBroadcastOne(c, {}) /\ UNCHANGED reapVars
    \/ WsTelemetrySent(c) /\ UNCHANGED reapVars

NextWsErr ==
    /\ \E c \in WsClients : WsErrStep(c)
    /\ UNCHANGED <<hystVars, hystRunVars, smVars, sm_inferred, psmVars, engVars, perSessionVars, batchVars>>

SpecWsErr == InitMotion /\ [][NextWsErr]_vars

\* the advice engine driven by generate_advice
NextAdvice ==
    /\ GenerateAdviceStep \/ (EngineTickStep /\ UNCHANGED <<hystVars, smVars, sm_inferred>>)
    /\ UNCHANGED <<hystRunVars, wsVars, reapVars, psmVars, perSessionVars, batchVars>>

SpecAdvice == InitMotion /\ [][NextAdvice]_vars

\* one analyzer fed with frame buffers
NextAnalyzer ==
    /\ AnalyzeBufferStep
    /\ UNCHANGED <<hystVars, hystRunVars, smVars, sm_inferred, wsVars, reapVars, psmVars,
                   engVars, tmVars, batchVars>>

SpecAnalyzer == InitMotion /\ [][NextAnalyzer]_vars

\* one task manager
NextTask ==
    /\ TaskStep
    /\ UNCHANGED <<hystVars, hystRunVars, smVars, sm_inferred, wsVars, reapVars, psmVars,
                   engVars, anVars, batchVars>>

SpecTask == InitMotion /\ [][NextTask]_vars

\* the advice engine fed with results around the warning band of stability
NextStability ==
    /\ GenerateStabilityStep \/ (EngineTickStep /\ UNCHANGED <<hystVars, smVars, sm_inferred>>)
    /\ UNCHANGED <<hystRunVars, wsVars, reapVars, psmVars, perSessionVars, batchVars>>

SpecStability == InitMotion /\ [][NextStability]_vars

\* the advice engine called with its smoothing filter on or off
NextSmoothing ==
    /\ \/ GenerateAdviceSmoothingStep
       \/ EngineTick(category_cooldown_s) /\ UNCHANGED <<hystVars, smVars, sm_inferred>>
    /\ UNCHANGED <<hystRunVars, wsVars, reapVars, psmVars, perSessionVars, batchVars>>

SpecSmoothing == InitMotion /\ [][NextSmoothing]_vars

\* the reconnection bookkeeping of the session manager
NextReconnect ==
    /\ \E s \in PsmSessions :
          \/ PsmCreateSession(s)
          \/ PsmCreateExisting(s)
          \/ PsmDeleteSession(s)
          \/ \E c \in PsmClients :
                \/ PsmAddClient(s, c)
                \/ PsmRemoveClient(s, c)
                \/ \E jitter \in JitterValues : PsmRecordReconnectAttempt(s, c, jitter)
                \/ PsmResetReconnectState(s, c)
    /\ UNCHANGED <<hystVars, hystRunVars, smVars, sm_inferred, wsVars, reapVars, engVars, perSessionVars, batchVars>>

SpecReconnect == InitMotion /\ [][NextReconnect]_vars

\* heartbeats, the clock and the cleanup task
SweepClientStep ==
    \E s \in PsmSessions :
       \/ PsmCreateSession(s)
       \/ \E c \in PsmClients :
             \/ PsmAddClient(s, c)
             \/ PsmRemoveClient(s, c)
             \/ PsmUpdateClientHeartbeat(s, c)

NextSweep ==
    /\ \/ SweepClientStep
       \/ PsmStartCleanupTask
       \/ PsmStopCleanupTask
       \/ PsmCleanupStale
       \/ Tick
    /\ UNCHANGED <<hystVars, hystRunVars, smVars, sm_inferred, wsVars, reapVars, engVars, perSessionVars, batchVars>>

SpecSweep == InitMotion /\ [][NextSweep]_vars

\* the event loop runs the clock and wakes the cleanup task when its sleep ends
SpecSweepFair ==
    /\ SpecSweep
    /\ WF_vars(Tick /\ UNCHANGED <<hystVars, hystRunVars, smVars, sm_inferred, wsVars, reapVars, engVars, perSessionVars, batchVars>>)
    /\ WF_vars(PsmCleanupStale
               /\ UNCHANGED <<hystVars, hystRunVars, smVars, sm_inferred, wsVars, reapVars, engVars, perSessionVars, batchVars>>)

\* one invocation of run_pipeline
NextPipeline == PipelineStep /\ UNCHANGED <<realtimeVars, llmVars, synthVars>>

SpecPipeline == InitMotion /\ [][NextPipeline]_vars

\* two invocations of run_pipeline on one orchestrator
NextPipelines == (\E i \in Pipelines : ConcurrentPipelineStep(i)) /\ UNCHANGED <<realtimeVars, llmVars, synthVars>>

SpecPipelines == InitMotion /\ [][NextPipelines]_vars

NextLLM == LlmStep /\ UNCHANGED <<realtimeVars, pipelineVars, synthVars>>

SpecLLM == InitMotion /\ [][NextLLM]_vars

NextSynth == SynthStep /\ UNCHANGED <<realtimeVars, pipelineVars>>

SpecSynth == InitMotion /\ [][NextSynth]_vars

(***************************************************************************)
(* Properties                                                              *)
(***************************************************************************)

\* C1 (SpecHyst): while the values of consecutive checks of a category stay
\* strictly between one enter threshold and its exit threshold, the level
\* the category has after the first check of the run is the level it has
\* after every later check of the run.
C1_NoOscillationInBand ==
    hyst_run.len >= 1 => current_states[hyst_key] = hyst_run.level

\* ten checks of the stability level, all between critical enter and exit
C1_Witness ==
    /\ hyst_key = "stability"
    /\ hyst_run.band = "critical"
    /\ hyst_run.len = 10

\* C2 (SpecMotion): the committed motion type changes to a type T only on an
\* update at which the consistency_required latest updates all inferred T.
C2_CommitNeedsConsecutiveInferences ==
    [][sm_current_state' # sm_current_state =>
         /\ Len(sm_inferred') = consistency_required
         /\ \A i \in 1..Len(sm_inferred') : sm_inferred'[i] = sm_current_state']_vars

\* the machine has left its initial type for pan on two pan inferences
C2_Witness ==
    /\ sm_current_state = "pan"
    /\ sm_inferred = <<"pan", "pan">>

\* C3 (SpecWS): at most one handler task of the session is between the start
\* of its analysis and the end of its advice generation.
C3_CyclesNeverOverlap ==
    Cardinality({c \in WsClients : ws_pc[c] \in {"analyze", "advise"}}) <= 1

\* one client's cycle runs while the other client's previous cycle still
\* has its acknowledgement or its broadcast to send
C3_Witness ==
    \E c \in WsClients : \E d \in WsClients \ {c} :
        /\ ws_pc[c] \in {"analyze", "advise"}
        /\ ws_pc[d] \in {"ack", "bcast"}

\* C4 (SpecWS): every client receives the payloads in the order in which the
\* engine emitted them.
C4_ReceivedInEmissionOrder ==
    \A c \in WsClients :
       \A i \in 1..Len(ws_received[c]) : \A j \in 1..Len(ws_received[c]) :
          i < j => ws_received[c][i] < ws_received[c][j]

\* the payloads of task t's cycle that client x has received, in order
ReceivedOf(t, x) ==
    LET OfCycle(p) == \E i \in 1..Len(ws_advice[t]) : ws_advice[t][i] = p
    IN SelectSeq(ws_received[x], OfCycle)

\* the payloads task t has broadcast so far
BroadcastSoFar(t) ==
    IF ws_pc[t] = "bcast" THEN SubSeq(ws_advice[t], 1, ws_idx[t] - 1) ELSE ws_advice[t]

\* C5 (SpecWS): a client that is attached and connected from the start of a
\* broadcast on, and whose own sends do not fail, has received every payload
\* broadcast so far, in order, whatever happened to the sends to the others.
C5_FanOutReachesEveryLiveClient ==
    \A t \in WsClients :
       ws_pc[t] \in {"bcast", "telemetry"} =>
          \A x \in ws_steady[t] : ReceivedOf(t, x) = BroadcastSoFar(t)

\* a broadcast of two payloads is over, a send to one client failed and the
\* other client got both payloads
C5_Witness ==
    \E t \in WsClients :
        /\ ws_pc[t] = "telemetry"
        /\ Len(ws_advice[t]) = 2
        /\ ws_failed[t] # {}
        /\ \E x \in ws_steady[t] : ReceivedOf(t, x) = ws_advice[t]

\* the triggers whose payload is built behind a call of is_consistent
GatedTriggers == {"stability_warning", "speed_fast", "speed_uneven", "off_center",
                  "too_large", "too_small", "telephoto", "stabilization"}

\* C6 (SpecAdvice): a payload of a trigger that goes through the consistency
\* check is returned only by a call before which the trigger's condition
\* already held on the previous call, so that it has held on two consecutive
\* cycles ending with the current one.
C6_EmittedOnlyAfterConsecutiveCycles ==
    \A i \in 1..Len(eng_emitted) :
       eng_emitted[i].trigger \in GatedTriggers => eng_emitted[i].held_before

\* C7 as stated (SpecAdvice): a payload of an AdviceCategory is returned no
\* earlier than category_cooldown_s after the previous payload of the same
\* AdviceCategory.
C7_CooldownPerAdviceCategory ==
    \A i \in 1..Len(eng_emitted) :
       \/ eng_emitted[i].gap_cat = -1
       \/ eng_emitted[i].gap_cat >= category_cooldown_s

\* C7 amended (SpecAdvice): a payload recorded under a cooldown key is
\* returned no earlier than category_cooldown_s after the previous payload
\* recorded under the same key.
C7_CooldownPerKey ==
    \A i \in 1..Len(eng_emitted) :
       \/ eng_emitted[i].gap_key = -1
       \/ eng_emitted[i].gap_key >= category_cooldown_s

\* a key is used a second time once its cooldown is over
C7_Witness ==
    \E i \in 1..Len(eng_emitted) : eng_emitted[i].gap_key >= category_cooldown_s

\* C8 (SpecReconnect): an attempt of a (session, client) pair made after
\* max_reconnect_attempts attempts of the pair since its last registration is
\* rejected.
C8_RejectedAfterMaxAttempts ==
    psm_last_attempt.no > max_reconnect_attempts => ~psm_last_attempt.ok

\* C9 (SpecSweep): a sweep leaves every client registered whose heartbeat has
\* not timed out, and with it the client's session.
C9_SweepDropsOnlyTimedOutClients ==
    [][PsmCleanupStale =>
         \A s \in psm_sessions : \A c \in psm_clients[s] :
            (now - psm_last_heartbeat[s][c]) <= heartbeat_timeout_s =>
               (s \in psm_sessions' /\ c \in psm_clients'[s])]_vars

\* a sweep has removed a client and kept another one and the session
C9_Witness ==
    /\ psm_last_sweep.removed # {}
    /\ psm_last_sweep.kept # {}
    /\ psm_last_sweep.deleted = {}

TimedOut(s, c) ==
    /\ s \in psm_sessions
    /\ c \in psm_clients[s]
    /\ (now - psm_last_heartbeat[s][c]) > heartbeat_timeout_s

\* C10 (SpecSweepFair): a sweep removes every client whose heartbeat is more
\* than heartbeat_timeout_s old, and while the cleanup task runs such a
\* client does not stay registered for ever: it is removed, unless it is
\* registered anew, sends a heartbeat or the task is stopped.
C10_TimedOutClientIsSwept ==
    /\ [][PsmCleanupStale =>
            \A s \in PsmSessions : \A c \in PsmClients :
               TimedOut(s, c) => c \notin psm_clients'[s]]_vars
    /\ \A s \in PsmSessions : \A c \in PsmClients :
          (TimedOut(s, c) /\ psm_cleanup_task)
             ~> (~TimedOut(s, c) \/ ~psm_cleanup_task)

\* a sweep of the running cleanup task has just removed a timed-out client
C10_Witness ==
    /\ psm_cleanup_task
    /\ psm_last_sweep.removed # {}
    /\ now >= cleanup_interval_s

\* the session exists and no client is attached to it
SessionEmpty == ws_session /\ ws_clients = {}

\* C11 (SpecReapFair): a session without attached clients does not stay so
\* for ever: it is deleted, unless a client attaches.
C11_EmptySessionIsReaped == SessionEmpty ~> ~SessionEmpty

\* C12 (SpecWsErr): an exception raised while a message of client c is
\* handled leaves c attached with its handler about to send the error message
\* and then back in its message loop; the session, the sleeping handlers, the
\* sockets, and the handlers, payloads and error messages of the other clients
\* are as before, and the error message goes to c alone.
C12_ErrorStaysWithItsClient ==
    [][\A c \in WsClients :
          LET raised == \E exc \in MessageExceptions : WsHandlingError(c, exc)
              sent == \E delivered \in BOOLEAN : WsErrorSent(c, delivered)
          IN /\ raised => ws_pc'[c] = "error" /\ ws_errors' = ws_errors
             /\ sent => ws_pc'[c] = "recv"
             /\ (raised \/ sent) =>
                   /\ ws_clients' = ws_clients
                   /\ ws_state' = ws_state
                   /\ ws_session' = ws_session
                   /\ ws_reapers' = ws_reapers
                   /\ \A d \in WsClients \ {c} :
                         /\ ws_pc'[d] = ws_pc[d]
                         /\ ws_received'[d] = ws_received[d]
                         /\ ws_errors'[d] = ws_errors[d]]_vars

\* a client was sent an error message and its handler is back in the message
\* loop while the other client, untouched, is still attached and connected
C12_Witness ==
    \E c \in WsClients : \E d \in WsClients \ {c} :
        /\ ws_errors[c] > 0
        /\ ws_errors[d] = 0
        /\ ws_pc[c] = "recv"
        /\ c \in ws_clients
        /\ d \in ws_clients
        /\ ws_state[d] = "CONNECTED"
        /\ ws_session

\* how often a stage was invoked in the run of an invocation
CallsOf(p, k) == Cardinality({j \in 1..Len(p.calls) : p.calls[j] = Stages[k]})

\* the configuration in force in a run that has the orchestrator to itself
OwnConfig(p) == IF p.config = NoConfig THEN DefaultConfig ELSE p.config

\* the position of a stage in the pipeline
StageIndex(name) == CHOOSE k \in 1..Len(Stages) : Stages[k] = name

\* C13 (SpecPipeline): no stage is invoked more than max_retries times, and
\* a stage that raises RetryableError on every attempt has been invoked
\* exactly max_retries times when run_pipeline returns, with the failure in
\* the result.
C13_RetryableStageInvokedMaxRetriesTimes ==
    LET p == pl["p1"]
    IN /\ \A k \in 1..Len(Stages) : CallsOf(p, k) <= OwnConfig(p).max_retries
       /\ (/\ p.pc = "returned"
           /\ p.script.stage = p.stage
           /\ p.script.retryable >= OwnConfig(p).max_retries)
          => /\ CallsOf(p, p.stage) = OwnConfig(p).max_retries
             /\ p.error # None

\* the default configuration: the stage that always raises RetryableError
\* was invoked three times and the run has failed
C13_Witness ==
    LET p == pl["p1"]
    IN /\ p.pc = "returned"
       /\ p.config = NoConfig
       /\ p.script.stage = 2
       /\ p.script.retryable = MaxFailures
       /\ CallsOf(p, 2) = max_retries
       /\ p.error = "RetryableError"

\* C14 (SpecPipeline): a stage that raises an exception other than
\* RetryableError is not invoked again and no backoff sleep follows: when its
\* first attempt raises it, the stage has been invoked once and the run has
\* not slept at all.
C14_NonRetryableStageInvokedOnce ==
    LET p == pl["p1"]
    IN (/\ p.pc \in {"returned", "sleeping"}
        /\ p.script.stage = p.stage
        /\ p.script.then = "fatal"
        /\ p.attempt = p.script.retryable
        /\ p.attempt < p.retries)
       => /\ p.pc = "returned"
          /\ p.error = "Exception"
          /\ CallsOf(p, p.stage) = p.script.retryable + 1
          /\ Len(p.sleeps) = p.script.retryable

\* the third stage raised a non-retryable error on its first attempt
C14_Witness ==
    LET p == pl["p1"]
    IN /\ p.pc = "returned"
       /\ p.script = [stage |-> 3, retryable |-> 0, then |-> "fatal", confidence |-> 80]
       /\ p.error = "Exception"
       /\ CallsOf(p, 3) = 1
       /\ p.sleeps = <<>>

\* C15 (SpecPipeline): a returned result with an error has the outputs of
\* exactly the stages before the failed one, and no stage after the failed
\* one was invoked.
C15_FailureKeepsPartialOutputs ==
    LET p == pl["p1"]
    IN (p.pc = "returned" /\ p.error # None)
       => /\ p.outputs = {Stages[j] : j \in 1..(p.stage - 1)}
          /\ \A k \in (p.stage + 1)..Len(Stages) : CallsOf(p, k) = 0

\* the fourth stage exhausted its retries and the outputs of the first three
\* stages are in the result
C15_Witness ==
    LET p == pl["p1"]
    IN /\ p.pc = "returned"
       /\ p.error = "RetryableError"
       /\ p.stage = 4
       /\ p.outputs = {Stages[1], Stages[2], Stages[3]}

\* C16 (SpecPipeline): an invocation cancelled while a stage is in progress
\* returns a result with error "cancelled" that has the outputs of the stages
\* completed before.
C16_CancelledReturnsPartialOutputs ==
    LET p == pl["p1"]
    IN p.cancelled
       => /\ p.pc = "returned"
          /\ p.error = "cancelled"
          /\ p.outputs = {Stages[j] : j \in 1..(p.stage - 1)}

\* C17 (SpecPipeline): the first stage invoked is upload, each invocation is
\* of the stage invoked before or of the stage after it, and the stage after
\* it is invoked only when the stage before has returned its output.
C17_StagesInOrder ==
    LET p == pl["p1"]
    IN /\ p.calls # <<>> => p.calls[1] = Stages[1]
       /\ \A j \in 1..(Len(p.calls) - 1) :
             \/ p.calls[j + 1] = p.calls[j]
             \/ /\ StageIndex(p.calls[j + 1]) = StageIndex(p.calls[j]) + 1
                /\ p.calls[j] \in p.outputs

\* a run without failures has invoked the five stages once each, in order
C17_Witness ==
    LET p == pl["p1"]
    IN p.pc = "returned" /\ p.error = None /\ p.calls = Stages

\* C18 (SpecPipelines): an invocation returns the result it returns when it
\* runs alone with the configuration it was given.
C18_ConcurrentRunsDoNotInterfere ==
    \A i \in Pipelines :
       pl[i].pc = "returned" => ResultOf(pl[i]) = AloneResult(pl[i].script, pl[i].config)

\* the failures the retry loop is said to answer with a further attempt
SaidRetryable == {"429", "timeout", "network"}

\* C19: in the client's retry loop an HTTP 429, a timeout and a network
\* error each lead to a further attempt until the configured max_retries calls
\* have been made, and any other non-2xx answer fails after that single call
C19_RetryableResponsesAreRetried ==
    llm.calls # <<>> =>
       LET last == llm.calls[Len(llm.calls)]
       IN  /\ (last \in SaidRetryable /\ llm.pc = "raised") => Len(llm.calls) = llm.max_retries
           /\ (last \in OtherStatus) => (llm.pc = "raised" /\ llm.error = "LLMError")
           /\ (llm.pc \in {"sleeping", "calling"}) => last \in SaidRetryable

\* what process returns or raises for the heuristics h when use_llm is off
WithoutEnhancement(h, config) == MergeAndValidate(h, config, NoLLMResult)

\* C20: when the model call has failed with its retries exhausted and
\* fallback_to_rules is set, process does not raise the failure of the model:
\* it ends as it does with use_llm off, returning the metadata of the rule
\* baseline
C20_FallbackReturnsRuleBaseline ==
    (/\ synth.pc \in {"returned", "raised"}
     /\ synth.config.use_llm /\ synth.config.fallback_to_rules
     /\ synth.llm_error = "All retries failed")
    => /\ synth.error \notin {"LLMError", "LLMResponseError"}
       /\ [pc |-> synth.pc, metadata |-> synth.metadata, error |-> synth.error] = WithoutEnhancement(synth.heuristic, synth.config)
       /\ ValidateMetadata(MergeResults(synth.heuristic, synth.heuristic.rule, NoLLMResult)) => synth.pc = "returned"

C20_Witness ==
    /\ synth.pc = "returned"
    /\ synth.config.use_llm /\ synth.config.fallback_to_rules
    /\ synth.llm_error = "All retries failed"
    /\ synth.llm_calls = LLMConfig_max_retries
    /\ synth.metadata = WithoutEnhancement(synth.heuristic, synth.config).metadata
    /\ synth.metadata.motion_type = "pan"

\* C21: a reply of the model that cannot be parsed as JSON is retried: the
\* synthesizer ends its enhancement over such a reply only after the model
\* has been asked LLMConfig.max_retries (3) times
C21_UnparsableReplyIsRetried ==
    (synth.pc \in {"returned", "raised"} /\ synth.llm_error = "LLMResponseError")
    => synth.replies = LLMConfig_max_retries

C23_ResultCarriesGateDecision ==
    \A i \in Pipelines :
       (pl[i].pc = "returned" /\ pl[i].error = None) =>
          /\ "instruction_generation" \in ResultOf(pl[i]).outputs
          /\ "confidence_action" \in DOMAIN ResultOf(pl[i])
          /\ ResultOf(pl[i]).confidence_action = HandleConfidence(pl[i].script.confidence)

\* C24: a call of generate_advice with a result whose confidence is below
\* min_confidence (0.5) returns exactly one payload, the info-priority
\* "analyzing" status
C24_LowConfidenceReturnsOnlyStatus ==
    [][\A in \in EngineInputs :
          (in.confidence < min_confidence /\ GenerateAdvice(in)) =>
             /\ Len(eng_emitted') = 1
             /\ eng_emitted'[1].priority = "info"
             /\ eng_emitted'[1].trigger = "low_confidence"]_vars

\* the status was returned for a result that holds the conditions of advice
C24_Witness ==
    /\ Len(eng_emitted) = 1
    /\ eng_emitted[1].trigger = "low_confidence"
    /\ "stabilization" \in eng_held

\* C25: in the stability category of the advice engine a cycle whose
\* motion_smoothness is below 0.35 leaves the level at critical, and a cycle
\* whose motion_smoothness is above 0.45 leaves the level out of critical
C25_StabilityCriticalEntersAndClears ==
    [][\A in \in EngineInputs :
          (in.confidence >= min_confidence /\ GenerateAdvice(in)) =>
             /\ in.motion_smoothness < StabilityCriticalEnter => current_states'["stability"] = "critical"
             /\ in.motion_smoothness > StabilityCriticalExit => current_states'["stability"] # "critical"]_vars

\* C26: after add_client has registered a client to a session, the client's
\* reconnect_attempts is 0 and its next reconnect delay is the initial delay
C26_RegistrationResetsReconnectState ==
    psm_last_add # NoAdd =>
       /\ psm_last_add.client \in psm_clients[psm_last_add.session]
       /\ psm_reconnect_attempts[psm_last_add.session][psm_last_add.client] = 0
       /\ CurrentDelay(psm_last_add.session, psm_last_add.client) = initial_reconnect_delay_s

\* a client whose delay had grown was registered
C26_Witness ==
    /\ psm_last_add # NoAdd
    /\ psm_last_add.delay_before > initial_reconnect_delay_s
    /\ CurrentDelay(psm_last_add.session, psm_last_add.client) = initial_reconnect_delay_s

\* C27: create_session with an ID that exists returns the existing session:
\* no state, analyzer or advice engine is built, and the session, its client
\* set and its bookkeeping are as they were before the call
C27_CreateExistingIsIdempotent ==
    psm_last_create # NoCreate =>
       /\ psm_last_create.session \in psm_sessions
       /\ ~psm_last_create.constructed
       /\ SessionView(psm_last_create.session) = psm_last_create.before

\* the session had a client whose reconnect delay had grown
C27_Witness ==
    /\ psm_last_create # NoCreate
    /\ psm_clients[psm_last_create.session] # {}
    /\ \E c \in PsmClients : psm_reconnect_delays[psm_last_create.session][c] > initial_reconnect_delay_s
    /\ SessionView(psm_last_create.session) = psm_last_create.before

\* C28: the motion state machine, hysteresis controller and smoothing filter of
\* a session's advice engine are mutated by only one task during the life of
\* the session, also when several clients are attached and submit frame buffers
C28_EngineHasOneWriterTask == Cardinality(ws_engine_tasks) <= 1

\* a call of generate_advice that ran no generator and returned an empty list
Bypassed(call) == ~call.generated /\ call.returned = <<>>

NoAnomalyIn(log, from, to) == \A j \in from..to : j <= Len(log) => ~log[j].anomaly

\* log: after an update with an anomaly the calls are bypassed for
\* anomaly_suppress_cycles calls, that of the anomaly included, and the next
\* call generates advice again when no anomaly has occurred since
SuppressedForSCycles(log) ==
    \A i \in 1..Len(log) :
        log[i].anomaly =>
           /\ \A j \in i..(i + anomaly_suppress_cycles - 1) : j <= Len(log) => Bypassed(log[j])
           /\ (/\ i + anomaly_suppress_cycles <= Len(log)
               /\ NoAnomalyIn(log, i + 1, i + anomaly_suppress_cycles))
              => log[i + anomaly_suppress_cycles].generated

\* C29 as stated: a cycle is a call of generate_advice with smoothing enabled
C29_BypassedForSCycles == SuppressedForSCycles(sf_log)

\* C29: after an update on which an anomaly is detected, generate_advice with
\* smoothing enabled returns an empty list for anomaly_suppress_cycles (2)
\* consecutive updates of the filter, that of the anomaly included, and
\* generates advice again on the update after those when no new anomaly
\* occurs; a call below min_confidence returns the low-confidence status,
\* does not update the filter and is not one of these cycles
C29_BypassedForSUpdates ==
    SuppressedForSCycles(SelectSeq(sf_log, LAMBDA call : call.updated))

\* an anomaly, a call of low confidence, the second bypassed update, and the
\* update that generates advice again
C29_Witness ==
    \E i \in 1..Len(sf_log) :
        /\ i + 3 <= Len(sf_log)
        /\ sf_log[i].anomaly /\ Bypassed(sf_log[i])
        /\ ~sf_log[i + 1].updated /\ sf_log[i + 1].returned = <<LowConfidenceStatus>>
        /\ sf_log[i + 2].updated /\ Bypassed(sf_log[i + 2])
        /\ sf_log[i + 3].generated

\* the payloads of the categories a motion type suppresses: the occupancy
\* warnings are subject_size_change, the position warning is a drift
SuppressedTriggers(motion_type) ==
    (IF motion_type \in {"dolly_in", "dolly_out", "track"}
     THEN {"too_large", "too_small"} ELSE {})
    \cup (IF motion_type \in {"pan", "track", "tilt"} THEN {"off_center"} ELSE {})

\* C30: in any cycle generate_advice emits no advice of a category in the
\* suppression set of the current committed motion type
C30_NoAdviceOfSuppressedCategory ==
    \A i \in 1..Len(eng_emitted) :
        eng_emitted[i].trigger \notin SuppressedTriggers(sm_current_state)

\* a call past every cooldown on a committed track (or pan, tilt) whose
\* subject is off centre and too large
C30_Witness ==
    /\ eng_cycles > 1
    /\ eng_now >= category_cooldown_s
    /\ sm_current_state \in {"track", "pan", "tilt"}
    /\ {"off_center", "too_large"} \subseteq eng_held
    /\ C30_NoAdviceOfSuppressedCategory

\* the subject-lost warning is among the payloads
HasLostWarning(emitted) == \E i \in 1..Len(emitted) : emitted[i].trigger = "subject_lost"

\* a subject-lost warning was returned less than category_cooldown_s ago
LostWarningRecent ==
    /\ eng_last_key["composition_lost"] # -1
    /\ eng_now - eng_last_key["composition_lost"] < category_cooldown_s

\* C31: the subject-lost warning is emitted on the first cycle in which
\* subject_lost is seen true, is not repeated while the subject stays lost nor
\* within the cooldown, and _subject_lost_since is cleared on the next cycle
\* that has subject_lost false
C31_SubjectLostWarnedOnce ==
    [][\A in \in EngineInputs :
          (in.confidence >= min_confidence /\ GenerateAdvice(in)) =>
             /\ (in.subject_lost /\ eng_subject_lost_since = -1 /\ ~LostWarningRecent)
                   => HasLostWarning(eng_emitted')
             /\ (in.subject_lost /\ eng_subject_lost_since # -1) => ~HasLostWarning(eng_emitted')
             /\ LostWarningRecent => ~HasLostWarning(eng_emitted')
             /\ ~in.subject_lost => eng_subject_lost_since' = -1]_vars

\* the positive stability payload is among the payloads
HasPositiveStability(emitted) ==
    \E i \in 1..Len(emitted) : emitted[i].trigger = "stability_positive"

\* no positive stability payload was returned less than category_cooldown_s ago
PositiveOffCooldown ==
    \/ eng_last_key["stability_positive"] = -1
    \/ eng_now - eng_last_key["stability_positive"] >= category_cooldown_s

\* C32 as stated: a positive stability payload is emitted only in a cycle in
\* which motion_smoothness is above the warning exit threshold (0.75) and the
\* positive payload is not on its own cooldown
C32_PositiveOnlyAboveWarningExit ==
    [][\A in \in StabilityInputs :
          (GenerateAdvice(in) /\ HasPositiveStability(eng_emitted')) =>
             /\ in.motion_smoothness > StabilityWarningExit
             /\ PositiveOffCooldown]_vars

\* C32: a positive stability payload is emitted only in a cycle that leaves
\* the stability level at normal, in which motion_smoothness is above the
\* warning threshold (0.70) and the positive payload is not on its own cooldown
C32_PositiveOnlyAboveWarningThreshold ==
    [][\A in \in StabilityInputs :
          (GenerateAdvice(in) /\ HasPositiveStability(eng_emitted')) =>
             /\ in.motion_smoothness > stability_warning_threshold
             /\ current_states'["stability"] = "normal"
             /\ PositiveOffCooldown]_vars

\* a positive payload returned for a motion_smoothness inside the warning band,
\* after the cooldown of an earlier positive payload
C32_Witness ==
    /\ \E i \in 1..Len(eng_emitted) :
          /\ eng_emitted[i].trigger = "stability_positive"
          /\ eng_emitted[i].gap_key >= category_cooldown_s
    /\ "stability_warning" \in eng_held


(***************************************************************************)
(* C33, C34: the analyzer's degradation and its subject tracking           *)
(***************************************************************************)
AverageAbove(history) == SeqSum(history) > latency_threshold_ms * Len(history)
AverageBelowHalf(history) == 2 * SeqSum(history) < latency_threshold_ms * Len(history)

C34_LostAfterNFrames ==
    an_subject_lost <=> (an_missing_run >= subject_lost_threshold_frames)


(***************************************************************************)
(* C35: what the progress callback is given                                *)
(***************************************************************************)
ProgressPcts(p) == [j \in 1..Len(p.progress) |-> p.progress[j].pct]

\* the progress_pct before and after each of the five stages
ProgressSchedule == <<0, 20, 20, 50, 50, 70, 70, 85, 85, 100>>

\* the reports up to the one before stage k
ReportedUpTo(k) == SubSeq(ProgressSchedule, 1, 2 * k - 1)

\* C35 as stated: the progress_pct values one invocation of run_pipeline
\* reports never decrease.
C35_ProgressNonDecreasing ==
    \A i \in Pipelines : \A j \in 1..(Len(pl[i].progress) - 1) :
       pl[i].progress[j].pct <= pl[i].progress[j + 1].pct

\* C35 amended: an invocation in which every stage returns reports 0, 20, 20,
\* 50, 50, 70, 70, 85, 85, 100, one report before and one after each stage (the
\* last with the stage COMPLETED).  An invocation that fails in stage k has
\* reported the schedule up to the report before stage k and then reports the
\* stage FAILED with progress_pct 0; a cancelled one stops after the report
\* before stage k.
C35_ProgressFollowsSchedule ==
    \A i \in Pipelines :
       LET p == pl[i]
       IN /\ p.pc = "idle" => p.progress = <<>>
          /\ p.pc \in {"running", "sleeping", "raised"} => ProgressPcts(p) = ReportedUpTo(p.stage)
          /\ (p.pc = "returned" /\ p.error = None) =>
                /\ ProgressPcts(p) = ProgressSchedule
                /\ p.progress[Len(p.progress)].stage = "completed"
                /\ \A k \in 1..Len(Stages) :
                      /\ p.progress[2 * k - 1] = [stage |-> Stages[k], pct |-> StartPct[k]]
                      /\ p.progress[2 * k].pct = EndPct[k]
          /\ (p.pc = "returned" /\ p.error # None) =>
                /\ ProgressPcts(p) = Append(ReportedUpTo(p.stage), FailedPct)
                /\ p.progress[Len(p.progress)].stage = "failed"

\* an invocation failed in the third stage or later: FAILED with 0 follows
\* the reports of the stages before
C35_Witness ==
    \E i \in Pipelines :
       /\ pl[i].pc = "returned"
       /\ pl[i].error # None
       /\ pl[i].stage >= 3
       /\ ProgressPcts(pl[i]) = Append(ReportedUpTo(pl[i].stage), FailedPct)


(***************************************************************************)
(* C36: the delayed clean-up of handle_connection                          *)
(***************************************************************************)
\* C36 as stated: when a handler that wakes from its clean-up sleep deletes
\* the session, no client is attached and none was attached during the
\* EmptySessionDelay (60 s) before.
C36_DeletesOnlyAfterEmptyDelay ==
    [][(ReapWake /\ ws_session /\ ~ws_session') =>
          /\ ws_clients = {}
          /\ ws_now - ws_last_detached >= EmptySessionDelay]_vars


(***************************************************************************)
(* C37: the sessions a sweep deletes                                       *)
(***************************************************************************)
\* C37 (SpecSweep): every client registered to a session that _cleanup_stale
\* deletes had, when the sweep began, a heartbeat older than
\* heartbeat_timeout_s.
C37_DeletedSessionHadOnlyTimedOutClients ==
    [][PsmCleanupStale =>
         \A s \in psm_sessions \ psm_sessions' : \A c \in psm_clients[s] :
            (now - psm_last_heartbeat[s][c]) > heartbeat_timeout_s]_vars

\* a sweep has deleted a session and removed a client of that session
C37_Witness ==
    \E p \in psm_last_sweep.removed : p[1] \in psm_last_sweep.deleted


(***************************************************************************)
(* C38: the cooldown of a category without recorded advice                 *)
(***************************************************************************)
\* C38: is_on_cooldown is false, at the current time, for every key for which
\* record_advice has never been called.
C38_UnrecordedCategoryNotOnCooldown ==
    \A key \in DOMAIN last_advice_time :
       last_advice_time[key] = -1 => ~IsOnCooldown(last_advice_time, key, eng_now)


(***************************************************************************)
(* C39: the states update_progress leaves                                  *)
(***************************************************************************)
\* C39: update_progress changes the state of a task only when the task is
\* EXECUTING or in RECOVERY: it leaves TASK_PICKED, DONE and FAILED as they
\* are.
C39_UpdateOnlyWhileExecuting ==
    [][\A q \in Qualities :
          (/\ tm_context # NoContext
           /\ tm_context.current_state \notin {"executing", "recovery"}
           /\ UpdateProgress(q))
             => tm_context'.current_state = tm_context.current_state]_vars


(***************************************************************************)
(* C40: the backoff sleeps of the retry helpers                            *)
(***************************************************************************)
\* C40: retry_with_backoff and complete_with_retry sleep between attempts
\* only: while a helper sleeps, an attempt is still to come.
C40_SleepsOnlyBetweenAttempts ==
    /\ \A i \in Pipelines :
          pl[i].pc = "sleeping" => pl[i].attempt + 1 < pl[i].retries
    /\ llm.pc = "sleeping" => llm.attempt + 1 < llm.max_retries

====
